---- MODULE Spec2Model ----
(***************************************************************************)
(* Model of pytensor's Numba dispatch for element-wise operations and axis *)
(* reductions (pytensor/link/numba/dispatch/elemwise.py).                  *)
(*                                                                         *)
(* Arrays are records [form, shape, data, dtype], data in C (row-major)    *)
(* order.                                                                  *)
(* Axes and coordinates are 0-based as in the source; TLA+ sequences are   *)
(* 1-based, so axis a of a shape s is s[a + 1].                            *)
(* Values of an integer dtype are integers kept at the dtype's width;      *)
(* values of float64 are exact rationals <<n, d>> with d > 0, and          *)
(* <<1, 0>> / <<-1, 0>> stand for +inf / -inf.                             *)
(***************************************************************************)
EXTENDS Integers, Sequences, FiniteSets, TLC

VARIABLES
    pc,       \* position of the modelled call sequence
    req,      \* the request: arguments of the entry point being called
    built,    \* what the entry point returned or raised, with its event log
    x,        \* the input array the kernel is called with
    cur,      \* the array the next single-axis reducer is applied to
    k,        \* number of the single-axis reducer running (1-based)
    res,      \* the result buffer of the running reducer
    idx,      \* position of the outer loop in np.ndindex(res_shape)
    i,        \* the inner loop counter `i` of the generated source
    hist,     \* per output coordinate: the updates applied so far (ghost)
    out,      \* the value the kernel returned
    enode,    \* the Elemwise node an elementwise entry point is called with
    ebuilt,   \* what the elementwise entry point returned or raised
    einputs,  \* the arrays the reference `elemwise` function is called with
    eshape,   \* the shape of inputs_bc, the result of np.broadcast_arrays
    eouts,    \* the output buffers of `elemwise`
    eidx,     \* position of the loop over np.ndindex(shape) in `elemwise`
    ecalls,   \* number of calls of the scalar kernel so far (ghost)
    eret,     \* what `elemwise` returned or raised
    jconfig,  \* the global compiler configuration: the cheap pass manager
    jsaved,   \* the pass manager use_optimized_cheap_pass keeps to restore
    jcall,    \* the running call of jit_compile_reducer and what it met
    jbefore,  \* the configuration when the running call started (ghost)
    jret,     \* what the last call of jit_compile_reducer returned or raised
    jdone,    \* number of calls of jit_compile_reducer completed
    ckernel,  \* the reduction kernel two threads call concurrently
    cheap,    \* the arrays in memory: the inputs and every buffer allocated
    cth,      \* per thread: the locals of its invocation of the kernel
    dop,      \* the DimShuffle operator and node a kernel is built for
    dkernel,  \* the functions numba_funcify_DimShuffle chose for the operator
    dheap,    \* the storage of the arrays in memory, one buffer per entry
    dx,       \* the array the dimshuffle kernel is called with
    dcur,     \* the local `x` / `res_reshape` of dimshuffle_inner
    dlog,     \* the completed kernel calls: operator, argument, result (ghost)
    pin,      \* the operator and arguments a kernel factory is applied to
    pout      \* what the factory's kernel returned or raised

rvars == <<req, built, x, cur, k, res, idx, i, hist, out>>
evars == <<enode, ebuilt, einputs, eshape, eouts, eidx, ecalls, eret>>
jvars == <<jconfig, jsaved, jcall, jbefore, jret, jdone>>
cvars == <<ckernel, cheap, cth>>
dvars == <<dop, dkernel, dheap, dx, dcur, dlog>>
pvars == <<pin, pout>>
vars == <<pc, rvars, evars, jvars, cvars, dvars, pvars>>

\* What the steps of one component leave alone
not_rvars == <<evars, jvars, cvars, dvars, pvars>>
not_evars == <<rvars, jvars, cvars, dvars, pvars>>
not_jvars == <<rvars, evars, cvars, dvars, pvars>>
not_cvars == <<rvars, evars, jvars, dvars, pvars>>
not_dvars == <<rvars, evars, jvars, cvars, pvars>>
not_pvars == <<rvars, evars, jvars, cvars, dvars>>

----------------------------------------------------------------------------
(* Bounds of the model *)

MaxRank == 3
MaxDim == 3
MaxSize == 6
MaxInputs == 2
MaxERank == 2
MaxCompiles == 2

None == "None"

----------------------------------------------------------------------------
(* Sequence and index helpers *)

Range(s) == {s[j] : j \in 1..Len(s)}

RECURSIVE Prod(_)
Prod(s) == IF s = <<>> THEN 1 ELSE Head(s) * Prod(Tail(s))

RECURSIVE SeqSum(_)
SeqSum(s) == IF s = <<>> THEN 0 ELSE Head(s) + SeqSum(Tail(s))

\* The axes of a rank-n array not in the set W, in increasing order
RECURSIVE KeptAxes(_, _, _)
KeptAxes(j, n, W) ==
    IF j >= n THEN <<>>
    ELSE (IF j \in W THEN <<>> ELSE <<j>>) \o KeptAxes(j + 1, n, W)

\* C-order flat position of coordinate c in an array of the given shape
RECURSIVE Ravel(_, _)
Ravel(shape, c) ==
    IF shape = <<>> THEN 0
    ELSE c[1] * Prod(Tail(shape)) + Ravel(Tail(shape), Tail(c))

\* The coordinate at C-order flat position f (f < Prod(shape))
RECURSIVE Unravel(_, _)
Unravel(shape, f) ==
    IF shape = <<>> THEN <<>>
    ELSE LET rest == Prod(Tail(shape))
         IN  <<f \div rest>> \o Unravel(Tail(shape), f % rest)

\* sorted(axes, reverse=True)
RECURSIVE SortedDesc(_)
SortedDesc(s) ==
    IF s = <<>> THEN <<>>
    ELSE LET m == CHOOSE j \in 1..Len(s) : \A l \in 1..Len(s) : s[l] <= s[j]
             rest == [l \in 1..(Len(s) - 1) |-> IF l < m THEN s[l] ELSE s[l + 1]]
         IN  <<s[m]>> \o SortedDesc(rest)

----------------------------------------------------------------------------
(* dtypes and values *)

IntDTypes == {"int16", "uint16"}
DTypes == IntDTypes \cup {"float64"}

\* np.dtype(...).kind
Kind(dtype) ==
    CASE dtype = "int16" -> "i"
      [] dtype = "uint16" -> "u"
      [] dtype = "float64" -> "f"

\* np.iinfo(dtype).min / .max
IInfoMin(dtype) == IF dtype = "int16" THEN -32768 ELSE 0
IInfoMax(dtype) == IF dtype = "int16" THEN 32767 ELSE 65535

PosInf == <<1, 0>>
NegInf == <<-1, 0>>
IsInf(v) == v \in {PosInf, NegInf}

Abs(n) == IF n < 0 THEN -n ELSE n

RECURSIVE GCD(_, _)
GCD(a, b) == IF b = 0 THEN a ELSE GCD(b, a % b)

Rat(n, d) ==
    LET g == GCD(Abs(n), d)
    IN  IF d = 0 THEN <<(IF n < 0 THEN -1 ELSE 1), 0>> ELSE <<n \div g, d \div g>>

RatAdd(p, q) ==
    IF p[2] = 0 THEN p ELSE IF q[2] = 0 THEN q
    ELSE Rat(p[1] * q[2] + q[1] * p[2], p[2] * q[2])
RatNeg(p) == <<-p[1], p[2]>>
RatSub(p, q) == RatAdd(p, RatNeg(q))
RatMul(p, q) == Rat(p[1] * q[1], p[2] * q[2])
RatDivInt(p, n) == Rat(p[1], p[2] * n)
\* p / q for finite p and finite non-zero q
RatDiv(p, q) ==
    IF q[1] < 0 THEN Rat(-(p[1] * q[2]), p[2] * (-q[1]))
    ELSE Rat(p[1] * q[2], p[2] * q[1])
RatLess(p, q) ==
    IF p[2] = 0 /\ q[2] = 0 THEN p[1] < q[1] ELSE p[1] * q[2] < q[1] * p[2]

\* Truncation toward zero, as a float -> integer cast does
Trunc(p) == IF p[1] >= 0 THEN p[1] \div p[2] ELSE -((-p[1]) \div p[2])

\* An integer kept at the width of an integer dtype (two's complement)
Wrap(dtype, n) ==
    LET lo == IInfoMin(dtype)
        span == IInfoMax(dtype) - lo + 1
    IN  ((n - lo) % span) + lo

\* A stored value of the dtype as an exact rational
ToRat(dtype, v) == IF Kind(dtype) = "f" THEN v ELSE <<v, 1>>

\* A finite or infinite rational stored as a value of the dtype
\* (an infinite value is stored only with a float dtype)
CastTo(dtype, p) == IF Kind(dtype) = "f" THEN p ELSE Wrap(dtype, Trunc(p))

----------------------------------------------------------------------------
(* Scalar in-place code generator *)

NotImplementedError == "NotImplementedError"

\* (create_vectorize_func without its check of the number of outputs)
create_vectorize_func_unchecked(node, use_signature) ==
    [err |-> "none",
     log |-> (IF use_signature THEN <<"create_numba_signature">> ELSE <<>>)
             \o <<"numba_vectorize", "numba_vectorized_fn">>,
     kernel |-> "elemwise_fn"]

\* (a generator whose default falls back to the += statement)
scalar_in_place_fn_with_fallback(op) ==
    CASE op = "Sub" -> "-="
      [] op = "Mean" -> "+= (arr - res) / (i + 1)"
      [] op = "Mul" -> "*="
      [] op = "MulWithoutZeros" -> "arr if res == 0 else (res if arr == 0 else res * arr)"
      [] op = "AND" -> "&="
      [] op = "OR" -> "|="
      [] op = "XOR" -> "^="
      [] op = "TrueDiv" -> "/="
      [] op = "IntDiv" -> "//="
      [] op = "ScalarMaximum" -> "if res < arr: res = arr"
      [] op = "ScalarMinimum" -> "if res > arr: res = arr"
      [] OTHER -> "+="

\* scalar_in_place_fn: the in-place statement registered for an operator
\* kind; the singledispatch default raises NotImplementedError.
scalar_in_place_fn(op) ==
    CASE op = "Add" -> "+="
      [] op = "Sub" -> "-="
      [] op = "Mean" -> "+= (arr - res) / (i + 1)"
      [] op = "Mul" -> "*="
      [] op = "MulWithoutZeros" -> "arr if res == 0 else (res if arr == 0 else res * arr)"
      [] op = "AND" -> "&="
      [] op = "OR" -> "|="
      [] op = "XOR" -> "^="
      [] op = "TrueDiv" -> "/="
      [] op = "IntDiv" -> "//="
      [] op = "ScalarMaximum" -> "if res < arr: res = arr"
      [] op = "ScalarMinimum" -> "if res > arr: res = arr"
      [] OTHER -> NotImplementedError

\* a // b on integers (floor division), b not 0
FloorDiv(a, b) == IF b < 0 THEN (-a) \div (-b) ELSE a \div b

\* Bit j of the two's complement form of an integer
Bit(a, j) == (a \div (2 ^ j)) % 2

\* a & b, a | b, a ^ b on the low BitWidth bits of the operands
BitWidth == 16
RECURSIVE BitwiseFrom(_, _, _, _)
BitwiseFrom(stmt, a, b, j) ==
    IF j = BitWidth THEN 0
    ELSE LET u == Bit(a, j)
             v == Bit(b, j)
             w == CASE stmt = "&=" -> u * v
                    [] stmt = "|=" -> IF u + v > 0 THEN 1 ELSE 0
                    [] stmt = "^=" -> (u + v) % 2
         IN  w * (2 ^ j) + BitwiseFrom(stmt, a, b, j + 1)

\* The value res[idx] holds after the statement ran with operand a and loop
\* counter n, on exact rationals.
EvalStmt(stmt, r, a, n) ==
    CASE stmt = "+=" -> RatAdd(r, a)
      [] stmt = "-=" -> RatSub(r, a)
      [] stmt = "+= (arr - res) / (i + 1)" -> RatAdd(r, RatDivInt(RatSub(a, r), n + 1))
      [] stmt = "*=" -> RatMul(r, a)
      [] stmt = "arr if res == 0 else (res if arr == 0 else res * arr)" ->
            IF r[1] = 0 THEN a ELSE IF a[1] = 0 THEN r ELSE RatMul(r, a)
      [] stmt \in {"&=", "|=", "^="} -> <<BitwiseFrom(stmt, r[1], a[1], 0), 1>>
      [] stmt = "/=" -> RatDiv(r, a)
      [] stmt = "//=" -> <<FloorDiv(r[1], a[1]), 1>>
      [] stmt = "if res < arr: res = arr" -> IF RatLess(r, a) THEN a ELSE r
      [] stmt = "if res > arr: res = arr" -> IF RatLess(a, r) THEN a ELSE r

----------------------------------------------------------------------------
(* Axis normalization (numpy.core.numeric) *)

\* (a normalization that wraps an out-of-range axis around)
normalize_axis_index_wrapping(axis, ndim) ==
    IF ndim = 0
    THEN [err |-> "AxisError", val |-> 0]
    ELSE [err |-> "none", val |-> axis % ndim]

\* normalize_axis_index(axis, ndim): AxisError is a ValueError
normalize_axis_index(axis, ndim) ==
    IF -ndim <= axis /\ axis < ndim
    THEN [err |-> "none", val |-> IF axis < 0 THEN axis + ndim ELSE axis]
    ELSE [err |-> "AxisError", val |-> 0]

\* (a normalization that drops repeated axes instead of raising)
normalize_axis_tuple_dedup(axes, ndim) ==
    LET each == [j \in 1..Len(axes) |->
                    IF -ndim <= axes[j] /\ axes[j] < ndim
                    THEN [err |-> "none",
                          val |-> IF axes[j] < 0 THEN axes[j] + ndim ELSE axes[j]]
                    ELSE [err |-> "AxisError", val |-> 0]]
        named == {each[j].val : j \in 1..Len(axes)}
    IN  IF \E j \in 1..Len(axes) : each[j].err # "none"
        THEN [err |-> "AxisError", val |-> <<>>]
        ELSE [err |-> "none", val |-> KeptAxes(0, ndim, (0..(ndim - 1)) \ named)]

\* normalize_axis_tuple(axes, ndim): every entry is normalized first, then a
\* repeated axis raises ValueError
normalize_axis_tuple(axes, ndim) ==
    LET each == [j \in 1..Len(axes) |-> normalize_axis_index(axes[j], ndim)]
        vals == [j \in 1..Len(axes) |-> each[j].val]
    IN  IF \E j \in 1..Len(axes) : each[j].err # "none"
        THEN [err |-> "AxisError", val |-> <<>>]
        ELSE IF Cardinality(Range(vals)) # Len(vals)
        THEN [err |-> "ValueError", val |-> <<>>]
        ELSE [err |-> "none", val |-> vals]

IsValueError(e) == e \in {"AxisError", "ValueError"}

----------------------------------------------------------------------------
(* Axis Reducer Synthesizer: create_axis_reducer *)

\* str(identity), with "inf" / "-inf" rewritten to "np.inf" / "-np.inf"; any
\* other value prints as its numeral
IdentityLiteral(identity) ==
    LET str == IF identity = PosInf THEN "inf"
               ELSE IF identity = NegInf THEN "-inf" ELSE "numeral"
    IN  IF str = "inf" THEN "np.inf"
        ELSE IF str = "-inf" THEN "-np.inf" ELSE str

\* The value the literal denotes inside the generated source
LiteralValue(lit, identity) ==
    CASE lit = "np.inf" -> PosInf
      [] lit = "-np.inf" -> NegInf
      [] lit = "numeral" -> identity

\* What create_axis_reducer does, in order: the events it performs, then
\* either the error raised or the description of the generated kernel.
create_axis_reducer(scalar_op, identity, axis, ndim, dtype, keepdims, return_scalar) ==
    LET norm == normalize_axis_index(axis, ndim)
        stmt == scalar_in_place_fn(scalar_op)
        pre == IF ndim > 1
               THEN <<"normalize_axis_index", "create_tuple_creator", "scalar_in_place_fn">>
               ELSE <<"normalize_axis_index", "scalar_in_place_fn">>
        lit == IdentityLiteral(identity)
    IN  IF norm.err # "none"
        THEN [err |-> norm.err, log |-> <<"normalize_axis_index">>, fn |-> <<>>]
        ELSE IF stmt = NotImplementedError
        THEN [err |-> NotImplementedError, log |-> pre, fn |-> <<>>]
        ELSE [err |-> "none",
              log |-> pre \o <<"reduce_elemwise_def_src", "compile_function_src">>,
              fn |-> <<[stmt |-> stmt,
                        identity |-> LiteralValue(lit, identity),
                        axis |-> norm.val,
                        ndim |-> ndim,
                        dtype |-> dtype,
                        return_expr |->
                            IF ndim > 1
                            THEN (IF keepdims THEN "np.expand_dims(res, axis)" ELSE "res")
                            ELSE IF return_scalar
                                 THEN (IF keepdims THEN "res" ELSE "res.item()")
                                 ELSE (IF keepdims THEN "np.asarray(res)"
                                                   ELSE "np.asarray(res.item())")]>>]

----------------------------------------------------------------------------
(* Multi-Axis Reducer Composer: create_multiaxis_reducer *)

\* (a loop that builds every reducer for the rank of the original input)
RECURSIVE careduce_loop_same_rank(_, _, _, _, _, _)
careduce_loop_same_rank(scalar_op, identity, to_reduce, ndim, dtype, acc) ==
    IF to_reduce = <<>> THEN acc
    ELSE LET r == create_axis_reducer(scalar_op, identity, Head(to_reduce),
                                      ndim, dtype, FALSE, FALSE)
         IN  IF r.err # "none"
             THEN [acc EXCEPT !.err = r.err, !.log = @ \o r.log]
             ELSE careduce_loop_same_rank(scalar_op, identity, Tail(to_reduce), ndim,
                                          dtype,
                                          [acc EXCEPT !.log = @ \o r.log \o <<"numba_njit">>,
                                                      !.fns = @ \o r.fn])

\* The loop over to_reduce: one single-axis reducer per axis, each wrapped by
\* numba_njit, the rank dropping by one per step.  acc collects the events
\* and the reducers; the first error ends the loop.
RECURSIVE careduce_loop(_, _, _, _, _, _)
careduce_loop(scalar_op, identity, to_reduce, ndim, dtype, acc) ==
    IF to_reduce = <<>> THEN acc
    ELSE LET r == create_axis_reducer(scalar_op, identity, Head(to_reduce),
                                      ndim, dtype, FALSE, FALSE)
         IN  IF r.err # "none"
             THEN [acc EXCEPT !.err = r.err, !.log = @ \o r.log]
             ELSE careduce_loop(scalar_op, identity, Tail(to_reduce), ndim - 1, dtype,
                                [acc EXCEPT !.log = @ \o r.log \o <<"numba_njit">>,
                                            !.fns = @ \o r.fn])

create_multiaxis_reducer(scalar_op, identity, axes, ndim, dtype, return_scalar) ==
    IF Len(axes) = 1
    THEN LET r == create_axis_reducer(scalar_op, identity, axes[1], ndim, dtype,
                                      FALSE, FALSE)
         IN  [err |-> r.err, log |-> r.log, fns |-> r.fn, wrap |-> "careduce_axis"]
    ELSE LET norm == normalize_axis_tuple(axes, ndim)
             to_reduce == SortedDesc(norm.val)
             loop == careduce_loop(scalar_op, identity, to_reduce, ndim, dtype,
                                   [err |-> "none", log |-> <<"normalize_axis_tuple">>,
                                    fns |-> <<>>])
         IN  IF norm.err # "none"
             THEN [err |-> norm.err, log |-> <<"normalize_axis_tuple">>,
                   fns |-> <<>>, wrap |-> "none"]
             ELSE IF loop.err # "none"
             THEN [err |-> loop.err, log |-> loop.log, fns |-> <<>>, wrap |-> "none"]
             ELSE [err |-> "none",
                   log |-> loop.log \o <<"careduce_def_src", "compile_function_src">>,
                   fns |-> loop.fns,
                   wrap |-> IF return_scalar THEN "np.asarray(res).item()"
                                             ELSE "np.asarray(res)"]

----------------------------------------------------------------------------
(* Axis-Apply Kernel Builder: create_axis_apply_fn *)

create_axis_apply_fn(axis, ndim, dtype) ==
    LET norm == normalize_axis_index(axis, ndim)
    IN  IF norm.err # "none"
        THEN [err |-> norm.err, log |-> <<"normalize_axis_index">>,
              fns |-> <<>>, wrap |-> "none"]
        ELSE [err |-> "none", log |-> <<"normalize_axis_index", "numba_njit">>,
              fns |-> <<[stmt |-> "res[m] = fn(x_reaxis[m])", identity |-> <<0, 1>>,
                         axis |-> norm.val, ndim |-> ndim, dtype |-> dtype,
                         return_expr |-> "res"]>>,
              wrap |-> "axis_apply_fn"]

----------------------------------------------------------------------------
(* CAReduce factory: numba_funcify_CAReduce *)

\* The identity handed to create_multiaxis_reducer: np.array(identity,
\* dtype=np_acc_dtype) after the clamp of an infinite identity.  Converting
\* an infinite Python float to an integer dtype raises OverflowError.
careduce_identity(nominal, acc_dtype) ==
    LET clamped == IF Kind(acc_dtype) = "i" /\ IsInf(nominal)
                   THEN (IF nominal = PosInf THEN <<IInfoMax(acc_dtype), 1>>
                                             ELSE <<IInfoMin(acc_dtype), 1>>)
                   ELSE nominal
    IN  IF Kind(acc_dtype) # "f" /\ IsInf(clamped)
        THEN [err |-> "OverflowError", val |-> clamped]
        ELSE [err |-> "none", val |-> ToRat(acc_dtype, CastTo(acc_dtype, clamped))]

numba_funcify_CAReduce(scalar_op, nominal, axis_none, axis, op_acc_dtype, ndim, out_dtype) ==
    LET axes == IF axis_none THEN [j \in 1..ndim |-> j - 1] ELSE axis
        acc_dtype == IF op_acc_dtype # None THEN op_acc_dtype ELSE out_dtype
        ident == careduce_identity(nominal, acc_dtype)
        py_fn == create_multiaxis_reducer(scalar_op, ident.val, axes, ndim, out_dtype, FALSE)
    IN  IF ident.err # "none"
        THEN [err |-> ident.err, log |-> <<>>, fns |-> <<>>, wrap |-> "none",
              identity |-> ident.val]
        ELSE IF py_fn.err # "none"
        THEN [err |-> py_fn.err, log |-> py_fn.log, fns |-> <<>>, wrap |-> "none",
              identity |-> ident.val]
        ELSE [err |-> "none", log |-> py_fn.log \o <<"jit_compile_reducer">>,
              fns |-> py_fn.fns, wrap |-> py_fn.wrap, identity |-> ident.val]

----------------------------------------------------------------------------
(* The generated kernels *)

Array(shape, data, dtype) ==
    [form |-> "array", shape |-> shape, data |-> data, dtype |-> dtype]
Scalar(v, dtype) == [form |-> "scalar", shape |-> <<>>, data |-> <<v>>, dtype |-> dtype]
Raised(e) == [form |-> e, shape |-> <<>>, data |-> <<>>, dtype |-> "none"]
NoArray == [form |-> "none", shape |-> <<>>, data |-> <<>>, dtype |-> "none"]

\* res_shape_tuple_ctor(x_shape): the shape without the reduced axis
res_shape_tuple_ctor(shape, axis, ndim) ==
    [j \in 1..(ndim - 1) |-> IF j - 1 < axis THEN shape[j] ELSE shape[j + 1]]

\* x[arr_indices]: the loop counter at the reduced axis, idx_arr[count]
\* elsewhere, count running over the other axes in order
arr_indices(idx_arr, n, axis, ndim) ==
    [j \in 1..ndim |-> IF j - 1 = axis THEN n
                        ELSE IF j - 1 < axis THEN idx_arr[j] ELSE idx_arr[j - 1]]

\* (a buffer that starts from np.zeros instead of the identity)
result_buffer_zeros(fn, shape) ==
    LET res_shape == IF fn.ndim > 1
                     THEN [j \in 1..(fn.ndim - 1) |->
                              IF j - 1 < fn.axis THEN shape[j] ELSE shape[j + 1]]
                     ELSE <<1>>
    IN  [form |-> "array", shape |-> res_shape,
         data |-> [f \in 1..Prod(res_shape) |-> CastTo(fn.dtype, <<0, 1>>)],
         dtype |-> fn.dtype]

\* np.full(res_shape, to_scalar(identity), dtype=out_dtype), and the
\* one-element buffer np.full(1, ...) of the rank-1 kernel
result_buffer(fn, shape) ==
    LET res_shape == IF fn.ndim > 1 THEN res_shape_tuple_ctor(shape, fn.axis, fn.ndim)
                                    ELSE <<1>>
    IN  Array(res_shape, [f \in 1..Prod(res_shape) |-> CastTo(fn.dtype, fn.identity)],
              fn.dtype)

\* (a reducer that walks the reduced axis from its far end)
read_position_backwards(fn, shape, res_shape, p, n) ==
    LET last == shape[fn.axis + 1] - 1
    IN  IF fn.ndim > 1
        THEN Ravel(shape, arr_indices(Unravel(res_shape, p), last - n, fn.axis, fn.ndim))
        ELSE last - n

\* The flat position of the element of the input read at output position
\* p with loop counter n
read_position(fn, shape, res_shape, p, n) ==
    IF fn.ndim > 1
    THEN Ravel(shape, arr_indices(Unravel(res_shape, p), n, fn.axis, fn.ndim))
    ELSE n

\* (a statement that stores the operand instead of accumulating it)
in_place_update_assign(fn, r, a, n) == CastTo(fn.dtype, a)

\* One execution of the in-place statement: r is the element of res, a the
\* element of the input (as an exact rational), n the loop counter i
in_place_update(fn, r, a, n) ==
    CastTo(fn.dtype, EvalStmt(fn.stmt, ToRat(fn.dtype, r), a, n))

\* (a rank-1 kernel that extracts the element whatever keepdims is)
return_value_item(fn, buf) ==
    IF fn.ndim > 1
    THEN (IF fn.return_expr = "res" THEN buf
          ELSE Array([j \in 1..fn.ndim |->
                         IF j - 1 < fn.axis THEN buf.shape[j]
                         ELSE IF j - 1 = fn.axis THEN 1 ELSE buf.shape[j - 1]],
                     buf.data, buf.dtype))
    ELSE IF fn.return_expr \in {"res", "res.item()"}
         THEN Scalar(buf.data[1], buf.dtype)
         ELSE Array(<<>>, <<buf.data[1]>>, buf.dtype)

\* The value of the return expression of a single-axis kernel
return_value(fn, buf) ==
    CASE fn.return_expr = "res" -> buf
      [] fn.return_expr = "np.expand_dims(res, axis)" ->
            Array([j \in 1..fn.ndim |->
                      IF j - 1 < fn.axis THEN buf.shape[j]
                      ELSE IF j - 1 = fn.axis THEN 1 ELSE buf.shape[j - 1]],
                  buf.data, buf.dtype)
      [] fn.return_expr = "res.item()" -> Scalar(buf.data[1], buf.dtype)
      [] fn.return_expr = "np.asarray(res)" -> buf
      [] fn.return_expr = "np.asarray(res.item())" ->
            Array(<<>>, <<buf.data[1]>>, buf.dtype)

\* The final expression of the composed function
wrap_value(wrap, v) ==
    CASE wrap = "careduce_axis" -> v
      [] wrap = "np.asarray(res)" -> Array(v.shape, v.data, v.dtype)
      [] wrap = "np.asarray(res).item()" ->
            IF Len(v.data) = 1 THEN Scalar(v.data[1], v.dtype) ELSE Raised("ValueError")

----------------------------------------------------------------------------
(* Elementwise kernels: create_vectorize_func and numba_funcify_Elemwise *)

\* create_vectorize_func: a node with more than one output is refused before
\* anything else is done
create_vectorize_func(node, use_signature) ==
    IF node.nout > 1
    THEN [err |-> NotImplementedError, log |-> <<>>, kernel |-> "none"]
    ELSE [err |-> "none",
          log |-> (IF use_signature THEN <<"create_numba_signature">> ELSE <<>>)
                  \o <<"numba_vectorize", "numba_vectorized_fn">>,
          kernel |-> "elemwise_fn"]

\* numba_funcify_Elemwise: the factory; it returns the function `elemwise`
\* for a node with any number of outputs
numba_funcify_Elemwise(node) ==
    [err |-> "none",
     log |-> (IF node.scalar_op = "Composite" THEN <<>> ELSE <<"make_node">>)
             \o <<"numba_funcify", "store_core_outputs", "encode_literals",
                  "encode_literals", "encode_literals", "encode_literals">>,
     kernel |-> "elemwise"]

\* np.broadcast_arrays(*inputs): the common shape of arrays of one rank, or
\* ValueError when two lengths of an axis differ and neither is 1
broadcast_arrays(inputs) ==
    LET n == Len(inputs[1].shape)
        lens(j) == {inputs[m].shape[j] : m \in 1..Len(inputs)} \ {1}
    IN  IF \E j \in 1..n : Cardinality(lens(j)) > 1
        THEN [err |-> "ValueError", shape |-> <<>>]
        ELSE [err |-> "none",
              shape |-> [j \in 1..n |-> IF lens(j) = {} THEN 1
                                         ELSE CHOOSE l \in lens(j) : TRUE]]

\* The check of `elemwise`: with shape = inputs[0].shape, an input axis of
\* length 1 that is not flagged broadcastable raises when shape is not ()
\* and the length of that axis in shape is not 1
broadcast_not_allowed(inputs, input_bc_patterns) ==
    LET shape == inputs[1].shape
    IN  \E m \in 1..Len(inputs) : \E j \in 1..Len(shape) :
           /\ inputs[m].shape[j] = 1
           /\ shape # <<>>
           /\ shape[j] # 1
           /\ ~input_bc_patterns[m][j]

\* inputs_bc[m][idx]: the element of input m at coordinate idx of the
\* broadcast view
broadcast_read(input, c) ==
    input.data[Ravel(input.shape,
                     [j \in 1..Len(c) |-> IF input.shape[j] = 1 THEN 0 ELSE c[j]]) + 1]

\* scalar_op_fn(*vals): the add kernel returns one value, the composite
\* kernel a tuple (sum, product)
scalar_op_fn(scalar_op, vals) ==
    IF scalar_op = "Add" THEN <<SeqSum(vals)>>
    ELSE <<SeqSum(vals), Prod(vals)>>

\* output.sum(axes) of an output whose flagged axes have length 1, the
\* axes not kept
sum_dropdims(output, bc) ==
    Array([q \in 1..Cardinality({j \in 1..Len(output.shape) : ~bc[j]}) |->
              output.shape[CHOOSE j \in 1..Len(output.shape) :
                              /\ ~bc[j]
                              /\ Cardinality({l \in 1..j : ~bc[l]}) = q]],
          output.data, output.dtype)

\* output.sum(axes, keepdims=True) with axes the flagged axes of bc
sum_keepdims(output, bc) ==
    LET n == Len(output.shape)
        flagged == {j - 1 : j \in {l \in 1..n : bc[l]}}
        shape == [j \in 1..n |-> IF bc[j] THEN 1 ELSE output.shape[j]]
        at(c, g) == \A j \in 1..n : bc[j] \/ Unravel(output.shape, g)[j] = c[j]
        total(c) == LET hits == {g \in 0..(Prod(output.shape) - 1) : at(c, g)}
                        seq == [q \in 1..Prod(output.shape) |->
                                   IF (q - 1) \in hits THEN output.data[q] ELSE 0]
                    IN  SeqSum(seq)
    IN  Array(shape,
              [p \in 1..Prod(shape) |-> Wrap(output.dtype, total(Unravel(shape, p - 1)))],
              output.dtype)

\* The value `elemwise` returns: one array, or a tuple of arrays
elemwise_result(outputs, output_bc_patterns) ==
    LET outputs_summed == [o \in 1..Len(outputs) |->
                              sum_keepdims(outputs[o], output_bc_patterns[o])]
    IN  [form |-> IF Len(outputs_summed) # 1 THEN "tuple" ELSE "array",
         items |-> outputs_summed]

----------------------------------------------------------------------------
(* Requests: the calls the model makes *)

\* Nominal identities of the scalar operators the CAReduce factory is used
\* with (pytensor.scalar.basic)
ScalarOps ==
    {<<"Add", <<0, 1>>>>, <<"Mul", <<1, 1>>>>,
     <<"ScalarMaximum", NegInf>>, <<"ScalarMinimum", PosInf>>}

\* An operator kind with no registered in-place statement
Unregistered == "Pow"

Ranks == 0..MaxRank

\* Strictly increasing sequences of axes
Ascending(s) == \A j \in 1..(Len(s) - 1) : s[j] < s[j + 1]

\* (op.acc_dtype, output dtype): no override, or an override with a float
\* output (an infinite float identity is never stored into an integer buffer)
AccOutPairs ==
    {<<None, d>> : d \in DTypes} \cup {<<d, "float64">> : d \in DTypes}

\* Every registered operator kind with its identity (pytensor.scalar.basic;
\* the right identity for the kinds that are not commutative) and the dtype
\* it is reduced in
IdentityKinds ==
    {<<"Add", <<0, 1>>, "int16">>, <<"Sub", <<0, 1>>, "int16">>,
     <<"Mean", <<0, 1>>, "float64">>, <<"Mul", <<1, 1>>, "int16">>,
     <<"MulWithoutZeros", <<1, 1>>, "int16">>, <<"AND", <<-1, 1>>, "int16">>,
     <<"OR", <<0, 1>>, "int16">>, <<"XOR", <<0, 1>>, "int16">>,
     <<"TrueDiv", <<1, 1>>, "float64">>, <<"IntDiv", <<1, 1>>, "int16">>,
     <<"ScalarMaximum", NegInf, "float64">>, <<"ScalarMinimum", PosInf, "float64">>}

\* Operator kind, identity and dtype of the direct calls
DirectKinds ==
    {<<"Add", <<0, 1>>, "int16">>, <<"Mean", <<0, 1>>, "float64">>,
     <<"ScalarMaximum", NegInf, "float64">>, <<Unregistered, <<1, 1>>, "int16">>}

\* The kinds create_multiaxis_reducer is called with directly
MultiKinds == {d \in DirectKinds : d[1] # "ScalarMaximum"}

Req(entry, scalar_op, identity, axis_none, axes, ndim, dtype, acc_dtype, keepdims, rs) ==
    [entry |-> entry, scalar_op |-> scalar_op, identity |-> identity,
     axis_none |-> axis_none, axes |-> axes, ndim |-> ndim, dtype |-> dtype,
     acc_dtype |-> acc_dtype, keepdims |-> keepdims, return_scalar |-> rs,
     fill |-> "any"]

NoReq == Req("none", "none", <<0, 1>>, FALSE, <<>>, 0, "int16", None, FALSE, FALSE)

\* Input arrays: every axis of length 0..MaxDim, at most one axis of length
\* 0, and at most MaxSize elements when that axis is left out
Shapes ==
    [n \in Ranks |->
        {s \in [1..n -> 0..MaxDim] :
            /\ Cardinality({j \in 1..n : s[j] = 0}) <= 1
            /\ Prod([j \in 1..n |-> IF s[j] = 0 THEN 1 ELSE s[j]]) <= MaxSize}]

Fills == {"arange", "mixed"}

fill_value(fill, f) == IF fill = "arange" THEN f + 1 ELSE (f * 3) % 7

\* The input arrays hold small non-negative integers
Input(shape, fill) ==
    Array(shape, [f \in 1..Prod(shape) |-> fill_value(fill, f - 1)], "int16")

\* An input of the kernel's dtype whose every element is the identity
IdentityInput(shape, identity, dtype) ==
    Array(shape, [f \in 1..Prod(shape) |-> CastTo(dtype, identity)], dtype)

\* The axes a request asks to reduce, by the usual convention that a
\* negative axis counts from the end
WantedAxes(r) ==
    IF r.axis_none THEN 0..(r.ndim - 1)
    ELSE {IF r.axes[j] < 0 THEN r.axes[j] + r.ndim ELSE r.axes[j] : j \in 1..Len(r.axes)}

\* What the requested entry point returns or raises
Outcome(r) ==
    CASE r.entry = "numba_funcify_CAReduce" ->
            numba_funcify_CAReduce(r.scalar_op, r.identity, r.axis_none, r.axes,
                                   r.acc_dtype, r.ndim, r.dtype)
      [] r.entry = "create_multiaxis_reducer" ->
            create_multiaxis_reducer(r.scalar_op, r.identity, r.axes, r.ndim, r.dtype,
                                     r.return_scalar)
      [] r.entry = "create_axis_reducer" ->
            LET o == create_axis_reducer(r.scalar_op, r.identity, r.axes[1], r.ndim,
                                         r.dtype, r.keepdims, r.return_scalar)
            IN  [err |-> o.err, log |-> o.log, fns |-> o.fn, wrap |-> "careduce_axis"]
      [] r.entry = "create_axis_apply_fn" ->
            create_axis_apply_fn(r.axes[1], r.ndim, r.dtype)
      [] r.entry = "scalar_in_place_fn" ->
            LET stmt == scalar_in_place_fn(r.scalar_op)
            IN  [err |-> IF stmt = NotImplementedError THEN stmt ELSE "none",
                 log |-> <<"scalar_in_place_fn">>, fns |-> <<>>, wrap |-> stmt]

NotBuilt ==
    [err |-> "none", log |-> <<>>, fns |-> <<>>, wrap |-> "none",
     identity |-> <<0, 1>>, entry |-> "none", scalar_op |-> "none", ndim |-> 0,
     dtype |-> "none", n_axes |-> 0, want |-> {}, return_scalar |-> FALSE,
     keepdims |-> FALSE, fill |-> "any"]

\* The operator kinds with a registered in-place statement
Registered ==
    {"Add", "Sub", "Mean", "Mul", "MulWithoutZeros", "AND", "OR", "XOR",
     "TrueDiv", "IntDiv", "ScalarMaximum", "ScalarMinimum"}

----------------------------------------------------------------------------
(* Idle values of the elementwise variables *)

NoNode ==
    [entry |-> "none", scalar_op |-> "none", nin |-> 0, nout |-> 0, ndim |-> 0,
     input_bc_patterns |-> <<>>, output_bc_patterns |-> <<>>,
     use_signature |-> FALSE]

NoKernel == [err |-> "none", log |-> <<>>, kernel |-> "none"]

NoReturn == [form |-> "none", items |-> <<>>]

ElemwiseIdle ==
    /\ enode = NoNode
    /\ ebuilt = NoKernel
    /\ einputs = <<>>
    /\ eshape = <<>>
    /\ eouts = <<>>
    /\ eidx = 0
    /\ ecalls = 0
    /\ eret = NoReturn

\* The cheap pass manager numba installs by default
DefaultPassManager == "mpm_cheap"

NoCall == [infer_signature |-> FALSE, compiles |-> TRUE, exc |-> "none", res |-> "none"]

JitIdle ==
    /\ jconfig = DefaultPassManager
    /\ jsaved = "none"
    /\ jcall = NoCall
    /\ jbefore = DefaultPassManager
    /\ jret = "none"
    /\ jdone = 0

ConcurrentIdle ==
    /\ ckernel = [fns |-> <<>>, wrap |-> "none"]
    /\ cheap = <<>>
    /\ cth = <<>>

NoView == [base |-> 0, shape |-> <<>>, strides |-> <<>>]

DimShuffleIdle ==
    /\ dop = [shuffle |-> <<>>, transposition |-> <<>>, augment |-> <<>>,
              inplace |-> FALSE, static |-> FALSE, type_shape |-> <<>>]
    /\ dkernel = [transpose |-> "none", find_shape |-> "none",
                  dimshuffle_inner |-> "none"]
    /\ dheap = <<>>
    /\ dx = NoView
    /\ dcur = NoView
    /\ dlog = <<>>

NoApplication == [fn |-> "none"]

FactoryIdle ==
    /\ pin = NoApplication
    /\ pout = NoArray

----------------------------------------------------------------------------
(* Actions *)

Init ==
    /\ pc = "request"
    /\ \E n \in Ranks :
          \* the CAReduce factory, with op.axis a tuple of axes or None
          \/ \E m \in 0..n, o \in ScalarOps, p \in AccOutPairs :
                \E a \in [1..m -> 0..(n - 1)] :
                   /\ Ascending(a)
                   /\ req = Req("numba_funcify_CAReduce", o[1], o[2], FALSE, a, n,
                                p[2], p[1], FALSE, FALSE)
          \/ \E o \in ScalarOps, p \in AccOutPairs :
                req = Req("numba_funcify_CAReduce", o[1], o[2], TRUE, <<>>, n,
                          p[2], p[1], FALSE, FALSE)
          \* create_multiaxis_reducer with any sequence of at most MaxRank axes,
          \* each in range or one step outside
          \/ \E m \in 0..MaxRank, d \in MultiKinds, rs \in BOOLEAN :
                \E a \in [1..m -> (-(n + 1))..n] :
                   req = Req("create_multiaxis_reducer", d[1], d[2], FALSE, a, n,
                             d[3], None, FALSE, rs)
          \/ \E a \in (-(n + 1))..n, d \in DirectKinds, kd \in BOOLEAN, rs \in BOOLEAN :
                req = Req("create_axis_reducer", d[1], d[2], FALSE, <<a>>, n,
                          d[3], None, kd, rs)
          \* create_axis_reducer for every registered kind with its identity,
          \* to be called with an array (of rank MaxERank at most) filled with
          \* that identity
          \/ \E a \in 0..(n - 1), d \in IdentityKinds :
                /\ n <= MaxERank
                /\ req = [Req("create_axis_reducer", d[1], d[2], FALSE, <<a>>, n,
                           d[3], None, FALSE, FALSE) EXCEPT !.fill = "identity"]
          \/ \E a \in (-(n + 1))..n :
                req = Req("create_axis_apply_fn", "argmax", <<0, 1>>, FALSE, <<a>>, n,
                          "int16", None, FALSE, FALSE)
          \/ \E o \in Registered \cup {Unregistered} :
                req = Req("scalar_in_place_fn", o, <<0, 1>>, FALSE, <<>>, n,
                          "int16", None, FALSE, FALSE)
    /\ built = NotBuilt
    /\ x = NoArray
    /\ cur = NoArray
    /\ k = 0
    /\ res = NoArray
    /\ idx = 0
    /\ i = 0
    /\ hist = <<>>
    /\ out = NoArray
    /\ ElemwiseIdle
    /\ JitIdle
    /\ ConcurrentIdle
    /\ DimShuffleIdle
    /\ FactoryIdle

\* The entry point runs: it returns a kernel or raises.  Its arguments are
\* gone when it returns; `built` keeps the outcome and, for reference, what
\* was asked for.
Build ==
    /\ pc = "request"
    /\ LET o == Outcome(req)
       IN  /\ built' = [err |-> o.err, log |-> o.log, fns |-> o.fns, wrap |-> o.wrap,
                        identity |-> IF req.entry = "numba_funcify_CAReduce"
                                     THEN o.identity ELSE req.identity,
                        entry |-> req.entry, scalar_op |-> req.scalar_op,
                        ndim |-> req.ndim, dtype |-> req.dtype,
                        n_axes |-> IF req.axis_none THEN req.ndim ELSE Len(req.axes),
                        want |-> WantedAxes(req), return_scalar |-> req.return_scalar,
                        keepdims |-> req.keepdims, fill |-> req.fill]
           /\ pc' = IF o.err = "none" THEN "built" ELSE "raised"
    /\ req' = NoReq
    /\ UNCHANGED <<x, cur, k, res, idx, i, hist, out>>
    /\ UNCHANGED not_rvars

\* The kernel is called with an array of the rank it was built for; the
\* builder's arguments are gone, the kernel keeps what it closed over
Call ==
    /\ pc = "built"
    /\ built.entry \in {"numba_funcify_CAReduce", "create_multiaxis_reducer",
                         "create_axis_reducer"}
    /\ \E shape \in Shapes[built.ndim] :
          \/ /\ built.fill = "any"
             /\ \E fill \in Fills :
                   /\ x' = Input(shape, fill)
                   /\ cur' = Input(shape, fill)
          \/ /\ built.fill = "identity"
             /\ x' = IdentityInput(shape, built.identity, built.dtype)
             /\ cur' = IdentityInput(shape, built.identity, built.dtype)
    /\ k' = 1
    /\ pc' = IF built.fns = <<>> THEN "compose" ELSE "enter"
    /\ UNCHANGED <<req, built, res, idx, i, hist, out>>
    /\ UNCHANGED not_rvars

\* careduce_axis starts: the result buffer is allocated and filled
Enter ==
    /\ pc = "enter"
    /\ res' = result_buffer(built.fns[k], cur.shape)
    /\ idx' = 0
    /\ i' = 0
    /\ hist' = [p \in 1..Prod(res'.shape) |-> <<>>]
    /\ pc' = "loop"
    /\ UNCHANGED <<req, built, x, cur, k, out>>
    /\ UNCHANGED not_rvars

axis_shape == cur.shape[built.fns[k].axis + 1]

LoopDone == idx >= Prod(res.shape) \/ axis_shape = 0

\* One iteration of the inner loop: the in-place statement runs once
Update ==
    /\ pc = "loop"
    /\ ~LoopDone
    /\ LET fn == built.fns[k]
           src == read_position(fn, cur.shape, res.shape, idx, i)
       IN  /\ res' = [res EXCEPT !.data[idx + 1] =
                          in_place_update(fn, @, ToRat(cur.dtype, cur.data[src + 1]), i)]
           /\ hist' = [hist EXCEPT ![idx + 1] = Append(@, [src |-> src, i |-> i])]
    /\ IF i + 1 < axis_shape
       THEN i' = i + 1 /\ idx' = idx
       ELSE i' = 0 /\ idx' = idx + 1
    /\ UNCHANGED <<pc, req, built, x, cur, k, out>>
    /\ UNCHANGED not_rvars

\* careduce_axis returns; the next reducer, if any, takes its result
Exit ==
    /\ pc = "loop"
    /\ LoopDone
    /\ cur' = return_value(built.fns[k], res)
    /\ k' = k + 1
    /\ pc' = IF k = Len(built.fns) THEN "compose" ELSE "enter"
    /\ UNCHANGED <<req, built, x, res, idx, i, hist, out>>
    /\ UNCHANGED not_rvars

\* The kernel returns
Return ==
    /\ pc = "compose"
    /\ out' = wrap_value(built.wrap, cur)
    /\ pc' = "done"
    /\ UNCHANGED <<req, built, x, cur, k, res, idx, i, hist>>
    /\ UNCHANGED not_rvars

Next == Build \/ Call \/ Enter \/ Update \/ Exit \/ Return

Spec == Init /\ [][Next]_vars

----------------------------------------------------------------------------
(* Elementwise requests and actions *)

ReducerIdle ==
    /\ req = NoReq
    /\ built = NotBuilt
    /\ x = NoArray
    /\ cur = NoArray
    /\ k = 0
    /\ res = NoArray
    /\ idx = 0
    /\ i = 0
    /\ hist = <<>>
    /\ out = NoArray

\* The scalar operators of the elementwise nodes and their output counts
ElemwiseOps == {<<"Add", 1>>, <<"Composite", 2>>}

\* The broadcastable pattern of an output of an Elemwise node: an axis is
\* flagged when it is flagged in every input (pytensor.tensor.elemwise)
elemwise_output_bc(input_bc_patterns, ndim) ==
    [j \in 1..ndim |-> \A m \in 1..Len(input_bc_patterns) : input_bc_patterns[m][j]]

\* Shapes of the arrays `elemwise` is called with
EShapes(n) == {s \in [1..n -> 1..MaxDim] : Prod(s) <= MaxSize}

\* A runtime array matches its type: a flagged axis has length 1.  The model
\* gives an input either no flagged axis, or flags on exactly its axes of
\* length 1.
MatchesPattern(shape, bc) ==
    \/ \A j \in 1..Len(shape) : ~bc[j]
    \/ \A j \in 1..Len(shape) : bc[j] <=> shape[j] = 1

\* Input m holds m, m + 1, ... in C order
EInput(shape, m) == Array(shape, [f \in 1..Prod(shape) |-> f + m - 1], "int16")

\* The values np.empty may leave in a fresh buffer
Garbage == {0, 9}

EInit ==
    /\ pc = "e_request"
    /\ \E n \in 0..MaxERank, nin \in 1..MaxInputs, o \in ElemwiseOps :
          \E bcs \in [1..nin -> [1..n -> BOOLEAN]] :
             \/ enode = [entry |-> "numba_funcify_Elemwise", scalar_op |-> o[1],
                         nin |-> nin, nout |-> o[2], ndim |-> n,
                         input_bc_patterns |-> bcs,
                         output_bc_patterns |->
                             [q \in 1..o[2] |-> elemwise_output_bc(bcs, n)],
                         use_signature |-> FALSE]
             \/ \E sig \in BOOLEAN :
                   enode = [entry |-> "create_vectorize_func", scalar_op |-> o[1],
                            nin |-> nin, nout |-> o[2], ndim |-> n,
                            input_bc_patterns |-> bcs,
                            output_bc_patterns |->
                                [q \in 1..o[2] |-> elemwise_output_bc(bcs, n)],
                            use_signature |-> sig]
    /\ ebuilt = NoKernel
    /\ einputs = <<>>
    /\ eshape = <<>>
    /\ eouts = <<>>
    /\ eidx = 0
    /\ ecalls = 0
    /\ eret = NoReturn
    /\ ReducerIdle
    /\ JitIdle
    /\ ConcurrentIdle
    /\ DimShuffleIdle
    /\ FactoryIdle

\* The elementwise entry point runs
EBuild ==
    /\ pc = "e_request"
    /\ ebuilt' = (IF enode.entry = "create_vectorize_func"
                  THEN create_vectorize_func(enode, enode.use_signature)
                  ELSE numba_funcify_Elemwise(enode))
    /\ pc' = IF ebuilt'.err = "none" THEN "e_built" ELSE "e_raised"
    /\ UNCHANGED <<enode, einputs, eshape, eouts, eidx, ecalls, eret>>
    /\ UNCHANGED not_evars

\* `elemwise` is called: inputs = [np.asarray(input) for input in inputs]
ECall ==
    /\ pc = "e_built"
    /\ ebuilt.kernel = "elemwise"
    /\ \E shapes \in [1..enode.nin -> EShapes(enode.ndim)] :
          /\ \A m \in 1..enode.nin :
                MatchesPattern(shapes[m], enode.input_bc_patterns[m])
          /\ einputs' = [m \in 1..enode.nin |-> EInput(shapes[m], m)]
    /\ pc' = "e_broadcast"
    /\ UNCHANGED <<enode, ebuilt, eshape, eouts, eidx, ecalls, eret>>
    /\ UNCHANGED not_evars

\* inputs_bc = np.broadcast_arrays(*inputs)
EBroadcast ==
    /\ pc = "e_broadcast"
    /\ LET b == broadcast_arrays(einputs)
       IN  IF b.err # "none"
           THEN /\ eret' = [form |-> b.err, items |-> <<>>]
                /\ pc' = "e_done"
                /\ UNCHANGED eshape
           ELSE /\ eshape' = b.shape
                /\ pc' = "e_check"
                /\ UNCHANGED eret
    /\ UNCHANGED <<enode, ebuilt, einputs, eouts, eidx, ecalls>>
    /\ UNCHANGED not_evars

\* The broadcast check, then outputs = [np.empty(shape, dtype) ...]
ECheck ==
    /\ pc = "e_check"
    /\ IF broadcast_not_allowed(einputs, enode.input_bc_patterns)
       THEN /\ eret' = [form |-> "ValueError", items |-> <<>>]
            /\ pc' = "e_done"
            /\ UNCHANGED <<eouts, eidx>>
       ELSE /\ \E g \in Garbage :
                  eouts' = [o \in 1..enode.nout |->
                               Array(einputs[1].shape,
                                     [f \in 1..Prod(einputs[1].shape) |-> g], "int16")]
            /\ eidx' = 0
            /\ pc' = "e_loop"
            /\ UNCHANGED eret
    /\ UNCHANGED <<enode, ebuilt, einputs, eshape, ecalls>>
    /\ UNCHANGED not_evars

\* One iteration of `for idx in np.ndindex(shape)`
ECompute ==
    /\ pc = "e_loop"
    /\ eidx < Prod(einputs[1].shape)
    /\ LET c == Unravel(einputs[1].shape, eidx)
           vals == [m \in 1..Len(einputs) |-> broadcast_read(einputs[m], c)]
           outs == scalar_op_fn(enode.scalar_op, vals)
       IN  eouts' = [o \in 1..Len(eouts) |->
                        IF o <= Len(outs)
                        THEN [eouts[o] EXCEPT !.data[eidx + 1] = Wrap("int16", outs[o])]
                        ELSE eouts[o]]
    /\ eidx' = eidx + 1
    /\ ecalls' = ecalls + 1
    /\ UNCHANGED <<pc, enode, ebuilt, einputs, eshape, eret>>
    /\ UNCHANGED not_evars

\* The sums over the flagged output axes, and the return
ESum ==
    /\ pc = "e_loop"
    /\ eidx = Prod(einputs[1].shape)
    /\ eret' = elemwise_result(eouts, enode.output_bc_patterns)
    /\ pc' = "e_done"
    /\ UNCHANGED <<enode, ebuilt, einputs, eshape, eouts, eidx, ecalls>>
    /\ UNCHANGED not_evars

ENext == EBuild \/ ECall \/ EBroadcast \/ ECheck \/ ECompute \/ ESum

SpecElemwise == EInit /\ [][ENext]_vars

----------------------------------------------------------------------------
(* jit_compile_reducer *)

\* The pass managers the global configuration can hold when a call starts:
\* numba's default, one installed by the embedding program, or the optimized
\* one (the call is nested in another use_optimized_cheap_pass block)
PassManagers == {DefaultPassManager, "mpm_custom", "mpm_optimized"}

\* use_optimized_cheap_pass().__enter__: the current pass manager is kept
\* and the optimized one installed
use_optimized_cheap_pass_enter(config) ==
    [saved |-> config, config |-> "mpm_optimized"]

\* use_optimized_cheap_pass().__exit__: the kept pass manager is put back;
\* an exception of the block is not swallowed
use_optimized_cheap_pass_exit(config, saved) ==
    [config |-> saved, swallow |-> FALSE]

\* (a block that leaves without calling __exit__ when its body raised)
with_block_exit_unless_raised(config, saved, exc) ==
    IF exc # "none"
    THEN [config |-> config, exc |-> exc]
    ELSE [config |-> saved, exc |-> exc]

\* Leaving the `with` block: __exit__ runs whether or not the body raised,
\* and the exception continues unless __exit__ swallows it
with_block_exit(config, saved, exc) ==
    LET e == use_optimized_cheap_pass_exit(config, saved)
    IN  [config |-> e.config, exc |-> IF e.swallow THEN "none" ELSE exc]

JInit ==
    /\ pc = "j_idle"
    /\ jconfig \in PassManagers
    /\ jsaved = "none"
    /\ jcall = NoCall
    /\ jbefore = jconfig
    /\ jret = "none"
    /\ jdone = 0
    /\ ReducerIdle
    /\ ElemwiseIdle
    /\ ConcurrentIdle
    /\ DimShuffleIdle
    /\ FactoryIdle

\* jit_compile_reducer(node, fn, infer_signature=...) is called
JCallStart ==
    /\ pc = "j_idle"
    /\ jdone < MaxCompiles
    /\ \E sig \in BOOLEAN, ok \in BOOLEAN :
          jcall' = [infer_signature |-> sig, compiles |-> ok, exc |-> "none",
                    res |-> "none"]
    /\ jbefore' = jconfig
    /\ pc' = "j_signature"
    /\ UNCHANGED <<jconfig, jsaved, jret, jdone>>
    /\ UNCHANGED not_jvars

\* if infer_signature: signature = create_numba_signature(...)
JSignature ==
    /\ pc = "j_signature"
    /\ pc' = "j_enter"
    /\ UNCHANGED jvars
    /\ UNCHANGED not_jvars

\* with use_optimized_cheap_pass():
JEnter ==
    /\ pc = "j_enter"
    /\ LET e == use_optimized_cheap_pass_enter(jconfig)
       IN  /\ jsaved' = e.saved
           /\ jconfig' = e.config
    /\ pc' = "j_compile"
    /\ UNCHANGED <<jcall, jbefore, jret, jdone>>
    /\ UNCHANGED not_jvars

\* res = numba_njit(*args, ...)(fn): the compilation returns or raises
JCompile ==
    /\ pc = "j_compile"
    /\ jcall' = IF jcall.compiles
                THEN [jcall EXCEPT !.res = "compiled"]
                ELSE [jcall EXCEPT !.exc = "TypingError"]
    /\ pc' = "j_exit"
    /\ UNCHANGED <<jconfig, jsaved, jbefore, jret, jdone>>
    /\ UNCHANGED not_jvars

\* The `with` block is left
JExit ==
    /\ pc = "j_exit"
    /\ LET e == with_block_exit(jconfig, jsaved, jcall.exc)
       IN  /\ jconfig' = e.config
           /\ jcall' = [jcall EXCEPT !.exc = e.exc]
    /\ jsaved' = "none"
    /\ pc' = "j_return"
    /\ UNCHANGED <<jbefore, jret, jdone>>
    /\ UNCHANGED not_jvars

\* return res, or the exception leaves jit_compile_reducer
JReturn ==
    /\ pc = "j_return"
    /\ jret' = IF jcall.exc # "none" THEN jcall.exc ELSE jcall.res
    /\ jdone' = jdone + 1
    /\ pc' = "j_idle"
    /\ UNCHANGED <<jconfig, jsaved, jcall, jbefore>>
    /\ UNCHANGED not_jvars

\* Between calls the embedding program may install another pass manager
JConfigure ==
    /\ pc = "j_idle"
    /\ jdone > 0
    /\ jdone < MaxCompiles
    /\ \E c \in PassManagers \ {jconfig} : jconfig' = c
    /\ jcall' = NoCall
    /\ jbefore' = jconfig'
    /\ jret' = "none"
    /\ UNCHANGED <<pc, jsaved, jdone>>
    /\ UNCHANGED not_jvars

JNext == JCallStart \/ JSignature \/ JEnter \/ JCompile \/ JExit \/ JReturn \/ JConfigure

SpecJit == JInit /\ [][JNext]_vars

----------------------------------------------------------------------------
(* Concurrent invocations of one generated reduction kernel *)

Threads == {1, 2}

\* (an allocation that hands out again a buffer of the same shape that is
\* already in memory, as a kernel keeping its buffer between calls would)
np_full_cached(heap, buf, t) ==
    LET same == {b \in 1..Len(heap) : heap[b].owner # 0 /\ heap[b].arr.shape = buf.shape}
    IN  IF same # {}
        THEN [heap |-> heap, ref |-> CHOOSE b \in same : TRUE]
        ELSE [heap |-> Append(heap, [arr |-> buf, owner |-> t, writers |-> {}]),
              ref |-> Len(heap) + 1]

\* np.full inside an invocation: a new array in memory, known only to the
\* invocation that allocated it.  The result is the memory after the
\* allocation and the position of the new array.
np_full(heap, buf, t) ==
    [heap |-> Append(heap, [arr |-> buf, owner |-> t, writers |-> {}]),
     ref |-> Len(heap) + 1]

\* The value one single-axis kernel returns for the array a when it runs
\* alone: every output cell takes the updates of its row in order
RECURSIVE reduce_cell(_, _, _, _, _, _)
reduce_cell(fn, a, res_shape, p, n, r) ==
    IF n >= a.shape[fn.axis + 1] THEN r
    ELSE reduce_cell(fn, a, res_shape, p, n + 1,
                     in_place_update(fn, r,
                         ToRat(a.dtype,
                               a.data[read_position(fn, a.shape, res_shape, p, n) + 1]),
                         n))

careduce_axis(fn, a) ==
    LET buf == result_buffer(fn, a.shape)
    IN  return_value(fn, [buf EXCEPT !.data =
                             [p \in 1..Len(buf.data) |->
                                 reduce_cell(fn, a, buf.shape, p - 1, 0, buf.data[p])]])

\* The value the composed kernel returns when it runs alone
RECURSIVE careduce_chain(_, _)
careduce_chain(fns, a) ==
    IF fns = <<>> THEN a ELSE careduce_chain(Tail(fns), careduce_axis(Head(fns), a))

careduce(kernel, a) == wrap_value(kernel.wrap, careduce_chain(kernel.fns, a))

NoLocals ==
    [pc |-> "call", input |-> 0, cur |-> 0, k |-> 1, res |-> 0, idx |-> 0, i |-> 0,
     ret |-> NoArray]

\* Two threads are about to call one kernel built by create_multiaxis_reducer
\* for the add or the running-mean operator, on the same array or on two
\* arrays of one shape
CInit ==
    /\ pc = "c_run"
    /\ \E n \in 1..MaxERank, d \in {q \in MultiKinds : q[1] # Unregistered} :
          \E m \in 1..n, shape \in EShapes(n), same \in BOOLEAN :
             \E a \in [1..m -> 0..(n - 1)] :
                /\ Ascending(a)
                /\ LET b == create_multiaxis_reducer(d[1], d[2], a, n, d[3], FALSE)
                   IN  ckernel = [fns |-> b.fns, wrap |-> b.wrap]
                /\ cheap = <<[arr |-> Input(shape, "arange"), owner |-> 0, writers |-> {}],
                             [arr |-> Input(shape, "mixed"), owner |-> 0, writers |-> {}]>>
                /\ cth = [t \in Threads |->
                             [NoLocals EXCEPT !.input = IF same THEN 1 ELSE t,
                                              !.cur = IF same THEN 1 ELSE t]]
    /\ ReducerIdle
    /\ ElemwiseIdle
    /\ JitIdle
    /\ DimShuffleIdle
    /\ FactoryIdle

\* Thread t enters the next single-axis kernel: res = np.full(...)
CEnter(t) ==
    /\ cth[t].pc = "call"
    /\ cth[t].k <= Len(ckernel.fns)
    /\ LET fn == ckernel.fns[cth[t].k]
           a == np_full(cheap, result_buffer(fn, cheap[cth[t].cur].arr.shape), t)
       IN  /\ cheap' = a.heap
           /\ cth' = [cth EXCEPT ![t].res = a.ref, ![t].idx = 0, ![t].i = 0,
                                 ![t].pc = "loop"]
    /\ UNCHANGED <<pc, ckernel>>
    /\ UNCHANGED not_cvars

\* The loop of thread t is over
CLoopDone(t) ==
    LET fn == ckernel.fns[cth[t].k]
    IN  \/ cth[t].idx >= Prod(cheap[cth[t].res].arr.shape)
        \/ cheap[cth[t].cur].arr.shape[fn.axis + 1] = 0

\* Thread t runs the in-place statement once, on the array `res` names
CUpdate(t) ==
    /\ cth[t].pc = "loop"
    /\ ~CLoopDone(t)
    /\ LET fn == ckernel.fns[cth[t].k]
           a == cheap[cth[t].cur].arr
           r == cheap[cth[t].res].arr
           src == read_position(fn, a.shape, r.shape, cth[t].idx, cth[t].i)
       IN  /\ cheap' = [cheap EXCEPT
                          ![cth[t].res].arr.data[cth[t].idx + 1] =
                              in_place_update(fn, @, ToRat(a.dtype, a.data[src + 1]),
                                              cth[t].i),
                          ![cth[t].res].writers = @ \cup {t}]
           /\ cth' = IF cth[t].i + 1 < a.shape[fn.axis + 1]
                     THEN [cth EXCEPT ![t].i = @ + 1]
                     ELSE [cth EXCEPT ![t].i = 0, ![t].idx = @ + 1]
    /\ UNCHANGED <<pc, ckernel>>
    /\ UNCHANGED not_cvars

\* The single-axis kernel of thread t returns: its result is a new value
\* that the next kernel of the chain reads
CExit(t) ==
    /\ cth[t].pc = "loop"
    /\ CLoopDone(t)
    /\ LET fn == ckernel.fns[cth[t].k]
           v == return_value(fn, cheap[cth[t].res].arr)
       IN  IF fn.return_expr = "res"
           THEN /\ cth' = [cth EXCEPT ![t].cur = cth[t].res, ![t].k = @ + 1,
                                      ![t].pc = "call"]
                /\ UNCHANGED cheap
           ELSE /\ cheap' = Append(cheap, [arr |-> v, owner |-> t, writers |-> {}])
                /\ cth' = [cth EXCEPT ![t].cur = Len(cheap) + 1, ![t].k = @ + 1,
                                      ![t].pc = "call"]
    /\ UNCHANGED <<pc, ckernel>>
    /\ UNCHANGED not_cvars

\* The composed kernel of thread t returns
CReturn(t) ==
    /\ cth[t].pc = "call"
    /\ cth[t].k > Len(ckernel.fns)
    /\ cth' = [cth EXCEPT ![t].ret = wrap_value(ckernel.wrap, cheap[cth[t].cur].arr),
                          ![t].pc = "done"]
    /\ UNCHANGED <<pc, ckernel, cheap>>
    /\ UNCHANGED not_cvars

CNext == \E t \in Threads : CEnter(t) \/ CUpdate(t) \/ CExit(t) \/ CReturn(t)

SpecConcurrent == CInit /\ [][CNext]_vars

----------------------------------------------------------------------------
(* Reference definitions used by the properties *)

\* The entries of coordinate (or shape) c at the given axes
Project(c, axes) == [q \in 1..Len(axes) |-> c[axes[q] + 1]]

\* The sum of the elements of a whose coordinates at the kept axes are c,
\* over the first g flat positions
RECURSIVE RefSumAt(_, _, _, _)
RefSumAt(a, kept, c, g) ==
    IF g = 0 THEN 0
    ELSE (IF Project(Unravel(a.shape, g - 1), kept) = c THEN a.data[g] ELSE 0)
         + RefSumAt(a, kept, c, g - 1)

\* The sum of a over the axes W, as an array of the dtype
RefSum(a, W, dtype) ==
    LET kept == KeptAxes(0, Len(a.shape), W)
        shape == Project(a.shape, kept)
    IN  Array(shape,
              [p \in 1..Prod(shape) |->
                  CastTo(dtype, <<RefSumAt(a, kept, Unravel(shape, p - 1),
                                           Prod(a.shape)), 1>>)],
              dtype)

----------------------------------------------------------------------------
(* numba_funcify_DimShuffle *)
(* An array in memory is a view [base, shape, strides]: element c of the   *)
(* array is entry 1 + sum(c[j] * strides[j]) of the buffer dheap[base].    *)

\* The largest number of calls of dimshuffle kernels in a row
MaxShuffles == 2

\* The strides (in elements) of a C-contiguous array of the given shape
CStrides(shape) ==
    [j \in 1..Len(shape) |-> Prod(SubSeq(shape, j + 1, Len(shape)))]

CView(base, shape) == [base |-> base, shape |-> shape, strides |-> CStrides(shape)]

\* The elements of a view read in C (row-major) order
ViewData(heap, a) ==
    [f \in 1..Prod(a.shape) |->
        LET c == Unravel(a.shape, f - 1)
        IN  heap[a.base][1 + SeqSum([j \in 1..Len(c) |-> c[j] * a.strides[j]])]]

\* The C_CONTIGUOUS flag of an array: axes of length 1 do not count
IsCContiguous(a) ==
    \A j \in 1..Len(a.shape) :
        a.shape[j] = 1 \/ a.strides[j] = CStrides(a.shape)[j]

\* np.transpose(x, axes): a view of the same buffer
np_transpose(a, axes) ==
    [a EXCEPT !.shape = Project(a.shape, axes), !.strides = Project(a.strides, axes)]

\* x.copy(): a C-contiguous array in a buffer of its own
np_copy(heap, a) ==
    [heap |-> Append(heap, ViewData(heap, a)), arr |-> CView(Len(heap) + 1, a.shape)]

\* np.ascontiguousarray that relabels the strides and never copies
np_ascontiguousarray_relabel(heap, a) ==
    IF a.shape = <<>> THEN [heap |-> heap, arr |-> CView(a.base, <<1>>)]
    ELSE [heap |-> heap, arr |-> CView(a.base, a.shape)]

\* np.ascontiguousarray(x): x itself when it is C-contiguous (as an array of
\* at least one dimension), a copy otherwise
np_ascontiguousarray(heap, a) ==
    IF a.shape = <<>> THEN [heap |-> heap, arr |-> CView(a.base, <<1>>)]
    ELSE IF IsCContiguous(a)
         THEN [heap |-> heap, arr |-> [a EXCEPT !.strides = CStrides(a.shape)]]
         ELSE np_copy(heap, a)

\* np.reshape of a C-contiguous array: a view of the same buffer
np_reshape(a, new_shape) == CView(a.base, new_shape)

\* The inverse of a permutation of 0..n-1
InversePermutation(p) ==
    [j \in 1..Len(p) |-> (CHOOSE l \in 1..Len(p) : p[l] = j - 1) - 1]

IdentityPermutation(n) == [j \in 1..n |-> j - 1]

\* The static shape of the output of a DimShuffle node: length 1 at the
\* augmented positions, the lengths of the shuffled input axes elsewhere
RECURSIVE OutputTypeShape(_, _, _, _, _)
OutputTypeShape(in_shape, shuffle, augment, pos, j) ==
    IF pos >= Len(shuffle) + Len(augment) THEN <<>>
    ELSE IF pos \in Range(augment)
         THEN <<1>> \o OutputTypeShape(in_shape, shuffle, augment, pos + 1, j)
         ELSE <<in_shape[shuffle[j + 1] + 1]>>
                 \o OutputTypeShape(in_shape, shuffle, augment, pos + 1, j + 1)

\* The values of op.shuffle for an input of the given shape: distinct input
\* axes, and every axis left out (dropped) has length 1
ShuffleOrders(in_shape) ==
    LET n == Len(in_shape)
    IN  {s \in UNION {[1..m -> 0..(n - 1)] : m \in 0..n} :
            /\ \A a, b \in 1..Len(s) : a # b => s[a] # s[b]
            /\ \A ax \in 0..(n - 1) : ax \in Range(s) \/ in_shape[ax + 1] = 1}

\* The values of op.augment with m shuffled axes: no position of the
\* output, or one
Augments(m) == {<<>>} \cup {<<p>> : p \in 0..m}

\* The operator and node for the given order on an input of the given shape
DimShuffle(in_shape, shuffle, augment, inplace, static) ==
    [shuffle |-> shuffle,
     transposition |-> shuffle \o KeptAxes(0, Len(in_shape), Range(shuffle)),
     augment |-> augment,
     inplace |-> inplace,
     static |-> static,
     type_shape |-> IF static
                    THEN OutputTypeShape(in_shape, shuffle, augment, 0, 0)
                    ELSE <<>>]

\* numba_funcify_DimShuffle with the transpose step never skipped
numba_funcify_DimShuffle_always_transpose(op) ==
    [transpose |-> "np.transpose",
     find_shape |-> IF Len(op.shuffle) > 0
                    THEN (IF op.static THEN "static" ELSE "dynamic")
                    ELSE "template",
     dimshuffle_inner |-> IF Len(op.shuffle) + Len(op.augment) > 0
                          THEN "reshape" ELSE "scalar"]

\* numba_funcify_DimShuffle: the functions chosen for the operator
numba_funcify_DimShuffle(op) ==
    LET ndim_new_shape == Len(op.shuffle) + Len(op.augment)
        no_transpose ==
            \A j \in 1..Len(op.transposition) : op.transposition[j] = j - 1
    IN  [transpose |-> IF no_transpose THEN "identity" ELSE "np.transpose",
         find_shape |-> IF Len(op.shuffle) > 0
                        THEN (IF op.static THEN "static" ELSE "dynamic")
                        ELSE "template",
         dimshuffle_inner |-> IF ndim_new_shape > 0 THEN "reshape" ELSE "scalar"]

\* The loop of the dynamic find_shape, from position pos with j axes taken
RECURSIVE find_shape_loop(_, _, _, _, _)
find_shape_loop(array_shape, augment, ndim_new_shape, pos, j) ==
    IF pos >= ndim_new_shape THEN <<>>
    ELSE IF pos \notin Range(augment)
         THEN <<array_shape[j + 1]>>
                 \o find_shape_loop(array_shape, augment, ndim_new_shape, pos + 1, j + 1)
         ELSE <<1>> \o find_shape_loop(array_shape, augment, ndim_new_shape, pos + 1, j)

\* The indices j at which the dynamic find_shape reads array_shape, in the
\* order of the reads
RECURSIVE find_shape_reads(_, _, _, _)
find_shape_reads(augment, ndim_new_shape, pos, j) ==
    IF pos >= ndim_new_shape THEN <<>>
    ELSE IF pos \notin Range(augment)
         THEN <<j>> \o find_shape_reads(augment, ndim_new_shape, pos + 1, j + 1)
         ELSE find_shape_reads(augment, ndim_new_shape, pos + 1, j)

\* (a find_shape that puts the axis lengths first and the inserted axes of
\* length 1 after them)
find_shape_lengths_first(kernel, op, array_shape) ==
    IF kernel.find_shape = "static" THEN op.type_shape
    ELSE IF kernel.find_shape = "dynamic"
         THEN array_shape \o [pos \in 1..Len(op.augment) |-> 1]
         ELSE [pos \in 1..(Len(op.shuffle) + Len(op.augment)) |-> 1]

\* find_shape(array_shape), one of three functions
find_shape(kernel, op, array_shape) ==
    LET ndim_new_shape == Len(op.shuffle) + Len(op.augment)
    IN  IF kernel.find_shape = "static" THEN op.type_shape
        ELSE IF kernel.find_shape = "dynamic"
             THEN find_shape_loop(array_shape, op.augment, ndim_new_shape, 0, 0)
             ELSE [pos \in 1..ndim_new_shape |-> 1]

\* The return of dimshuffle_inner: the branch of rank 0 has no copy
dimshuffle_return(kernel, op, heap, res_reshape) ==
    IF kernel.dimshuffle_inner = "reshape" /\ ~op.inplace
    THEN np_copy(heap, res_reshape)
    ELSE [heap |-> heap, arr |-> res_reshape]

\* The input holds 1, 2, ... in C order; it is C-contiguous, or (view) the
\* transpose of a C-contiguous array
DInit ==
    /\ pc = "d_build"
    /\ \E n \in Ranks :
          \E shape \in EShapes(n), view \in BOOLEAN :
             \E sh \in ShuffleOrders(shape), inplace \in BOOLEAN, static \in BOOLEAN :
                \E aug \in Augments(Len(sh)) :
                   /\ view => n >= 2
                   /\ static => sh # <<>>
                   /\ dheap = <<[f \in 1..Prod(shape) |-> f]>>
                   /\ dx = IF view
                           THEN np_transpose(
                                    CView(1, [j \in 1..n |-> shape[n + 1 - j]]),
                                    [j \in 1..n |-> n - j])
                           ELSE CView(1, shape)
                   /\ dop = DimShuffle(shape, sh, aug, inplace, static)
    /\ dkernel = [transpose |-> "none", find_shape |-> "none",
                  dimshuffle_inner |-> "none"]
    /\ dcur = NoView
    /\ dlog = <<>>
    /\ ReducerIdle
    /\ ElemwiseIdle
    /\ JitIdle
    /\ ConcurrentIdle
    /\ FactoryIdle

\* numba_funcify_DimShuffle(op, node)
DBuild ==
    /\ pc = "d_build"
    /\ dkernel' = numba_funcify_DimShuffle(dop)
    /\ pc' = "d_call"
    /\ UNCHANGED <<dop, dheap, dx, dcur, dlog>>
    /\ UNCHANGED not_dvars

\* dimshuffle(x): dimshuffle_inner(np.asarray(x), shuffle) transposes,
\* makes the array contiguous, reshapes it and returns it or a copy of it
DCall ==
    /\ pc = "d_call"
    /\ LET transposed == IF dkernel.dimshuffle_inner = "reshape"
                            /\ dkernel.transpose = "np.transpose"
                         THEN np_transpose(dx, dop.transposition)
                         ELSE dx
           c == np_ascontiguousarray(dheap, transposed)
           new_shape ==
               IF dkernel.dimshuffle_inner = "reshape"
               THEN find_shape(dkernel, dop,
                               SubSeq(transposed.shape, 1, Len(dop.shuffle)))
               ELSE <<>>
           res_reshape == np_reshape(c.arr, new_shape)
           r == dimshuffle_return(dkernel, dop, c.heap, res_reshape)
       IN  /\ dheap' = r.heap
           /\ dcur' = r.arr
           /\ dlog' = Append(dlog,
                  [op |-> dop, kernel |-> dkernel, x |-> dx, res |-> r.arr,
                   shuffle_shape |-> SubSeq(transposed.shape, 1, Len(dop.shuffle)),
                   new_shape |-> new_shape,
                   reads |-> IF dkernel.dimshuffle_inner = "reshape"
                                /\ dkernel.find_shape = "dynamic"
                             THEN find_shape_reads(dop.augment,
                                      Len(dop.shuffle) + Len(dop.augment), 0, 0)
                             ELSE <<>>])
    /\ pc' = "d_done"
    /\ UNCHANGED <<dop, dkernel, dx>>
    /\ UNCHANGED not_dvars

\* The result of a kernel for an axis permutation is handed to the kernel
\* for the inverse permutation, an operator of the same kind (in place or
\* not, static shape or not)
DAgain ==
    /\ pc = "d_done"
    /\ Len(dlog) < MaxShuffles
    /\ Len(dop.shuffle) = Len(dx.shape)
    /\ dop.augment = <<>>
    /\ dop' = DimShuffle(dcur.shape, InversePermutation(dop.shuffle), <<>>,
                         dop.inplace, dop.static)
    /\ dx' = dcur
    /\ dcur' = NoView
    /\ dkernel' = [transpose |-> "none", find_shape |-> "none",
                   dimshuffle_inner |-> "none"]
    /\ pc' = "d_build"
    /\ UNCHANGED <<dheap, dlog>>
    /\ UNCHANGED not_dvars

DNext == DBuild \/ DCall \/ DAgain

SpecDimShuffle == DInit /\ [][DNext]_vars

----------------------------------------------------------------------------
(* numba_funcify_Argmax *)

\* np.transpose(x, axes) of an array held in C order, made contiguous
ArrayTranspose(a, axes) ==
    LET shape == Project(a.shape, axes)
    IN  Array(shape,
              [f \in 1..Prod(shape) |->
                  LET c == Unravel(shape, f - 1)
                      orig == [ax \in 1..Len(axes) |->
                                  c[CHOOSE q \in 1..Len(axes) : axes[q] = ax - 1]]
                  IN  a.data[1 + Ravel(a.shape, orig)]],
              a.dtype)

\* np.argmax of a non-empty vector: the index of the first maximal entry
np_argmax(v) ==
    (CHOOSE j \in 1..Len(v) :
        /\ \A l \in 1..Len(v) : v[l] <= v[j]
        /\ \A l \in 1..(j - 1) : v[l] < v[j]) - 1

\* The kernel made by create_axis_apply_fn(np.argmax, axis, ndim, dtype)
\* applied to x: the axis is moved last and res[m] = fn(x_reaxis[m])
axis_apply_fn(fn, a) ==
    LET reaxis_first == KeptAxes(0, fn.ndim, {fn.axis}) \o <<fn.axis>>
        x_reaxis == ArrayTranspose(a, reaxis_first)
        res_shape == SubSeq(x_reaxis.shape, 1, fn.ndim - 1)
        len == x_reaxis.shape[fn.ndim]
    IN  Array(res_shape,
              [p \in 1..Prod(res_shape) |->
                  np_argmax(SubSeq(x_reaxis.data, (p - 1) * len + 1, p * len))],
              fn.dtype)

\* numba_funcify_Argmax with the reduced axes taken in increasing order
numba_funcify_Argmax_sorted_axes(axis, x_ndim) ==
    IF x_ndim = 0
    THEN [kind |-> "constant", reaxis_order |-> <<>>, n_keep |-> 0, argmax_axis |-> <<>>]
    ELSE LET keep_axes == KeptAxes(0, x_ndim, Range(axis))
             reduced_x_ndim == x_ndim - Len(axis) + 1
             b == create_axis_apply_fn(reduced_x_ndim - 1, reduced_x_ndim, "int64")
         IN  [kind |-> "reduce",
              reaxis_order |-> keep_axes \o KeptAxes(0, x_ndim, Range(keep_axes)),
              n_keep |-> Len(keep_axes),
              argmax_axis |-> b.fns]

\* numba_funcify_Argmax(op, node): the kernel for op.axis and the input rank
numba_funcify_Argmax(axis, x_ndim) ==
    IF x_ndim = 0
    THEN [kind |-> "constant", reaxis_order |-> <<>>, n_keep |-> 0, argmax_axis |-> <<>>]
    ELSE LET keep_axes == KeptAxes(0, x_ndim, Range(axis))
             reduced_x_ndim == x_ndim - Len(axis) + 1
             b == create_axis_apply_fn(reduced_x_ndim - 1, reduced_x_ndim, "int64")
         IN  [kind |-> "reduce",
              reaxis_order |-> keep_axes \o axis,
              n_keep |-> Len(keep_axes),
              argmax_axis |-> b.fns]

\* argmax(x), the kernel
argmax(kernel, a) ==
    IF kernel.kind = "constant" THEN Scalar(0, "int64")
    ELSE LET transposed_x == ArrayTranspose(a, kernel.reaxis_order)
             kept_shape == SubSeq(transposed_x.shape, 1, kernel.n_keep)
             reduced_shape == SubSeq(transposed_x.shape, kernel.n_keep + 1,
                                     Len(transposed_x.shape))
             reduced_size == Prod(reduced_shape)
             reshaped_x == Array(kept_shape \o <<reduced_size>>, transposed_x.data,
                                 a.dtype)
         IN  axis_apply_fn(kernel.argmax_axis[1], reshaped_x)

ArgmaxFills == {"arange", "mixed", "ties", "zeros"}

argmax_fill_value(fill, f) ==
    CASE fill = "ties" -> (f * 2) % 3
      [] fill = "zeros" -> 0
      [] OTHER -> fill_value(fill, f)

\* Sequences of distinct axes of a rank-n array, in any order
DistinctAxes(n) ==
    {s \in UNION {[1..m -> 0..(n - 1)] : m \in 0..n} :
        \A a, b \in 1..Len(s) : a # b => s[a] # s[b]}

AInit ==
    /\ pc = "a_build"
    /\ \E n \in Ranks :
          \E shape \in EShapes(n), axis \in DistinctAxes(n), fill \in ArgmaxFills :
             pin = [fn |-> "Argmax", axis |-> axis, x_ndim |-> n,
                    kernel |-> numba_funcify_Argmax(<<>>, 0),
                    x |-> Array(shape,
                                [f \in 1..Prod(shape) |-> argmax_fill_value(fill, f - 1)],
                                "int16")]
    /\ pout = NoArray
    /\ ReducerIdle
    /\ ElemwiseIdle
    /\ JitIdle
    /\ ConcurrentIdle
    /\ DimShuffleIdle

\* numba_funcify_Argmax(op, node)
ABuild ==
    /\ pc = "a_build"
    /\ pin' = [pin EXCEPT !.kernel = numba_funcify_Argmax(pin.axis, pin.x_ndim)]
    /\ pc' = "a_call"
    /\ UNCHANGED pout
    /\ UNCHANGED not_pvars

\* argmax(x)
ACall ==
    /\ pc = "a_call"
    /\ pout' = argmax(pin.kernel, pin.x)
    /\ pc' = "a_done"
    /\ UNCHANGED pin
    /\ UNCHANGED not_pvars

ANext == ABuild \/ ACall

SpecArgmax == AInit /\ [][ANext]_vars

----------------------------------------------------------------------------
(* numba_funcify_Sum *)

\* numba_funcify_Sum(op, node): which impl_sum is returned.  array.sum() of
\* an integer array accumulates in int64, which no input of the model
\* overflows.
numba_funcify_Sum(axis_none, axis, op_acc_dtype, ndim_input, out_dtype) ==
    LET axes == IF axis_none THEN [j \in 1..ndim_input |-> j - 1] ELSE axis
        acc_dtype == IF op_acc_dtype # None THEN op_acc_dtype ELSE out_dtype
    IN  [path |-> IF ndim_input = Len(axes) THEN "array.sum"
                  ELSE IF Len(axes) = 0 THEN "np.asarray"
                  ELSE "numba_funcify_CAReduce",
         acc_dtype |-> acc_dtype,
         out_dtype |-> out_dtype,
         careduce |-> numba_funcify_CAReduce("Add", <<0, 1>>, axis_none, axis,
                                             op_acc_dtype, ndim_input, out_dtype)]

\* impl_sum(array)
impl_sum(kernel, array) ==
    CASE kernel.path = "array.sum" ->
            LET total == <<SeqSum(array.data), 1>>
                acc == ToRat(kernel.acc_dtype, CastTo(kernel.acc_dtype, total))
            IN  Array(<<>>, <<CastTo(kernel.out_dtype, acc)>>, kernel.out_dtype)
      [] kernel.path = "np.asarray" ->
            Array(array.shape,
                  [f \in 1..Len(array.data) |->
                      CastTo(kernel.out_dtype, ToRat(array.dtype, array.data[f]))],
                  kernel.out_dtype)
      [] OTHER -> careduce(kernel.careduce, array)

SumFills == {"arange", "large"}

\* Small values, or values whose sums leave the range of a 16-bit integer
sum_fill_value(fill, f) == IF fill = "large" THEN 30000 + f ELSE fill_value(fill, f)

SInit ==
    /\ pc = "s_build"
    /\ \E n \in Ranks, axis_none \in BOOLEAN, pair \in AccOutPairs :
          \E shape \in EShapes(n), axis \in DistinctAxes(n), fill \in SumFills :
             /\ axis_none => axis = <<>>
             /\ pin = [fn |-> "Sum", axis_none |-> axis_none, axis |-> axis,
                       ndim |-> n, acc_dtype |-> pair[1], out_dtype |-> pair[2],
                       kernel |-> [path |-> "none"],
                       x |-> Array(shape,
                                   [f \in 1..Prod(shape) |-> sum_fill_value(fill, f - 1)],
                                   "int16")]
    /\ pout = NoArray
    /\ ReducerIdle
    /\ ElemwiseIdle
    /\ JitIdle
    /\ ConcurrentIdle
    /\ DimShuffleIdle

\* numba_funcify_Sum(op, node)
SBuild ==
    /\ pc = "s_build"
    /\ pin' = [pin EXCEPT !.kernel = numba_funcify_Sum(pin.axis_none, pin.axis,
                                                       pin.acc_dtype, pin.ndim,
                                                       pin.out_dtype)]
    /\ pc' = "s_call"
    /\ UNCHANGED pout
    /\ UNCHANGED not_pvars

\* impl_sum(array)
SCall ==
    /\ pc = "s_call"
    /\ pout' = impl_sum(pin.kernel, pin.x)
    /\ pc' = "s_done"
    /\ UNCHANGED pin
    /\ UNCHANGED not_pvars

SNext == SBuild \/ SCall

SpecSum == SInit /\ [][SNext]_vars

----------------------------------------------------------------------------
(* _parse_gufunc_signature (pytensor/tensor/utils.py) *)
(* A string is a sequence of one-character strings.                        *)

\* Characters matched by \w and by \s
WordChars ==
    {"m", "n", "i", "o", "0", "1", "2", "3", "4", "5", "6", "7", "8", "9"}
Whitespace == {" "}

\* re.sub(r"\s+", "", signature) that leaves the signature as it is
re_sub_whitespace_none(s) == s

\* re.sub(r"\s+", "", signature)
re_sub_whitespace(s) == SelectSeq(s, LAMBDA ch : ch \notin Whitespace)

\* _DIMENSION_NAME = \w+ from position p: the position after the name
\* (p itself when no name starts at p)
RECURSIVE WordEnd(_, _)
WordEnd(s, p) == IF p <= Len(s) /\ s[p] \in WordChars THEN WordEnd(s, p + 1) ELSE p

\* A non-empty _CORE_DIMENSION_LIST and the closing parenthesis from
\* position p: the position after the parenthesis, 0 when there is no match
RECURSIVE match_dimension_names(_, _)
match_dimension_names(s, p) ==
    LET e == WordEnd(s, p)
    IN  IF e = p \/ e > Len(s) THEN 0
        ELSE IF s[e] = ")" THEN e + 1
        ELSE IF s[e] = "," THEN match_dimension_names(s, e + 1)
        ELSE 0

\* _ARGUMENT at position p: the position after it, 0 when there is no match
match_argument(s, p) ==
    IF p > Len(s) \/ s[p] # "(" THEN 0
    ELSE IF p + 1 <= Len(s) /\ s[p + 1] = ")" THEN p + 2
    ELSE match_dimension_names(s, p + 1)

\* _ARGUMENT_LIST at position p, as many arguments as match: the position
\* after it, 0 when there is no match
RECURSIVE match_argument_list(_, _)
match_argument_list(s, p) ==
    LET e == match_argument(s, p)
    IN  IF e = 0 THEN 0
        ELSE IF e <= Len(s) /\ s[e] = ","
             THEN LET r == match_argument_list(s, e + 1)
                  IN  IF r = 0 THEN e ELSE r
             ELSE e

\* re.match(_SIGNATURE, signature): an optional argument list, "->", an
\* argument list, the end of the string
re_match_signature(s) ==
    LET a == match_argument_list(s, 1)
        arrow == IF a = 0 THEN 1 ELSE a
    IN  /\ arrow + 1 <= Len(s)
        /\ s[arrow] = "-"
        /\ s[arrow + 1] = ">"
        /\ match_argument_list(s, arrow + 2) = Len(s) + 1

\* signature.split("->")
RECURSIVE split_arrow(_, _, _)
split_arrow(s, p, start) ==
    IF p > Len(s) THEN <<SubSeq(s, start, Len(s))>>
    ELSE IF p + 1 <= Len(s) /\ s[p] = "-" /\ s[p + 1] = ">"
         THEN <<SubSeq(s, start, p - 1)>> \o split_arrow(s, p + 2, p + 2)
         ELSE split_arrow(s, p + 1, start)

\* re.findall(_ARGUMENT, arg_list)
RECURSIVE findall_argument(_, _)
findall_argument(s, p) ==
    IF p > Len(s) THEN <<>>
    ELSE LET e == match_argument(s, p)
         IN  IF e = 0 THEN findall_argument(s, p + 1)
             ELSE <<SubSeq(s, p, e - 1)>> \o findall_argument(s, e)

\* re.findall(_DIMENSION_NAME, arg)
RECURSIVE findall_dimension_name(_, _)
findall_dimension_name(s, p) ==
    IF p > Len(s) THEN <<>>
    ELSE LET e == WordEnd(s, p)
         IN  IF e = p THEN findall_dimension_name(s, p + 1)
             ELSE <<SubSeq(s, p, e - 1)>> \o findall_dimension_name(s, e)

ValueErrorPrefix == <<"not a valid gufunc signature: ">>

\* _parse_gufunc_signature(signature)
parse_gufunc_signature(signature) ==
    LET s == re_sub_whitespace(signature)
        parts == split_arrow(s, 1, 1)
    IN  IF ~re_match_signature(s)
        THEN [form |-> "ValueError", message |-> ValueErrorPrefix \o s, items |-> <<>>]
        ELSE [form |-> "tuple", message |-> <<>>,
              items |-> [q \in 1..Len(parts) |->
                            IF parts[q] # <<>>
                            THEN LET args == findall_argument(parts[q], 1)
                                 IN  [l \in 1..Len(args) |->
                                         findall_dimension_name(args[l], 1)]
                            ELSE <<>>]]

\* The signatures the callers write: the core dimensions of an operand are
\* no, one or two names
DimensionNames == {<<"m">>, <<"n", "1">>}

CoreDimensions ==
    {<<>>} \cup {<<a>> : a \in DimensionNames}
           \cup {<<a, b>> : a \in DimensionNames, b \in DimensionNames}

RECURSIVE JoinComma(_)
JoinComma(parts) ==
    IF parts = <<>> THEN <<>>
    ELSE IF Len(parts) = 1 THEN parts[1]
    ELSE parts[1] \o <<",">> \o JoinComma(Tail(parts))

FormatArgument(dims) == <<"(">> \o JoinComma(dims) \o <<")">>

FormatArgumentList(operands) ==
    JoinComma([q \in 1..Len(operands) |-> FormatArgument(operands[q])])

FormatSignature(ins, outs) ==
    FormatArgumentList(ins) \o <<"-", ">">> \o FormatArgumentList(outs)

\* Ways a signature is written wrongly: a character is left out, or a
\* character is put in front of a character
Corruptions ==
    {<<"none", "">>, <<"delete", "">>, <<"insert", "(">>, <<"insert", "-">>,
     <<"insert", ",">>}

\* The places of a corruption: the first character, the arrow, the last
\* character
Anchors(s) == {1, CHOOSE p \in 1..Len(s) : s[p] = "-", Len(s)}

Corrupted(s, c, q) ==
    CASE c[1] = "none" -> s
      [] c[1] = "delete" -> SubSeq(s, 1, q - 1) \o SubSeq(s, q + 1, Len(s))
      [] c[1] = "insert" -> SubSeq(s, 1, q - 1) \o <<c[2]>> \o SubSeq(s, q, Len(s))

\* A blank after the first character and a blank inside the arrow
Spaced(s) ==
    LET a == CHOOSE p \in 1..Len(s) : s[p] = "-"
        b == SubSeq(s, 1, a) \o <<" ">> \o SubSeq(s, a + 1, Len(s))
    IN  <<b[1], " ">> \o Tail(b)

GInit ==
    /\ pc = "g_call"
    /\ \E nin \in 0..MaxInputs, c \in Corruptions, spaced \in BOOLEAN :
          \E ins \in [1..nin -> CoreDimensions], o \in CoreDimensions, two \in BOOLEAN :
             LET outs == IF two THEN <<o, o>> ELSE <<o>>
                 good == FormatSignature(ins, outs)
             IN  \E q \in Anchors(good) :
                    /\ c[1] = "none" => q = 1
                    /\ pin = [fn |-> "_parse_gufunc_signature",
                              inputs |-> ins, outputs |-> outs,
                              corruption |-> c[1],
                              signature |->
                                 LET bad == Corrupted(good, c, q)
                                 IN  IF spaced /\ c # <<"delete", "">>
                                     THEN Spaced(bad) ELSE bad]
    /\ pout = NoArray
    /\ ReducerIdle
    /\ ElemwiseIdle
    /\ JitIdle
    /\ ConcurrentIdle
    /\ DimShuffleIdle

\* _parse_gufunc_signature(signature)
GParse ==
    /\ pc = "g_call"
    /\ pout' = parse_gufunc_signature(pin.signature)
    /\ pc' = "g_done"
    /\ UNCHANGED pin
    /\ UNCHANGED not_pvars

GNext == GParse

SpecSignature == GInit /\ [][GNext]_vars

----------------------------------------------------------------------------
(* broadcast_static_dim_lengths *)

\* A static dim length of a type shape: a known length, or None
Known(n) == [known |-> TRUE, len |-> n]
UnknownLength == [known |-> FALSE, len |-> 0]

\* The value returned, or the exception raised
Returned(v) == [form |-> "value", value |-> v]
RaisedBy(e) == [form |-> e, value |-> UnknownLength]

\* (the function without its test for the indeterminate case {None, 1})
broadcast_static_dim_lengths_no_indeterminate(dim_lengths) ==
    LET dim_lengths_set == Range(dim_lengths)
        rest == dim_lengths_set \ {Known(1), UnknownLength}
    IN  IF Cardinality(dim_lengths_set) = 1
        THEN Returned(CHOOSE v \in dim_lengths_set : TRUE)
        ELSE IF Cardinality(rest) > 1 THEN RaisedBy("ValueError")
        ELSE IF rest = {} THEN RaisedBy("StopIteration")
        ELSE Returned(CHOOSE v \in rest : TRUE)

\* broadcast_static_dim_lengths(dim_lengths): next(iter(s)) of a set of one
\* element is that element, and of an empty set raises StopIteration
broadcast_static_dim_lengths(dim_lengths) ==
    LET dim_lengths_set == Range(dim_lengths)
        rest == dim_lengths_set \ {Known(1), UnknownLength}
    IN  IF Cardinality(dim_lengths_set) = 1
        THEN Returned(CHOOSE v \in dim_lengths_set : TRUE)
        ELSE IF dim_lengths_set = {UnknownLength, Known(1)}
        THEN Returned(UnknownLength)
        ELSE IF Cardinality(rest) > 1 THEN RaisedBy("ValueError")
        ELSE IF rest = {} THEN RaisedBy("StopIteration")
        ELSE Returned(CHOOSE v \in rest : TRUE)

\* The entries of a type shape: None or a length 0..MaxDim
DimLengths == {UnknownLength} \cup {Known(n) : n \in 0..MaxDim}

\* The static lengths of one axis of at most MaxRank inputs
DimLengthLists == UNION {[1..m -> DimLengths] : m \in 0..MaxRank}

BInit ==
    /\ pc = "b_call"
    /\ \E m \in 0..MaxRank :
          \E dim_lengths \in [1..m -> DimLengths] :
             pin = [fn |-> "broadcast_static_dim_lengths", dim_lengths |-> dim_lengths]
    /\ pout = NoArray
    /\ ReducerIdle
    /\ ElemwiseIdle
    /\ JitIdle
    /\ ConcurrentIdle
    /\ DimShuffleIdle

\* broadcast_static_dim_lengths(dim_lengths)
BCall ==
    /\ pc = "b_call"
    /\ pout' = broadcast_static_dim_lengths(pin.dim_lengths)
    /\ pc' = "b_done"
    /\ UNCHANGED pin
    /\ UNCHANGED not_pvars

BNext == BCall

SpecBroadcast == BInit /\ [][BNext]_vars

----------------------------------------------------------------------------
(* safe_signature (pytensor/tensor/utils.py) *)

MaxOperands == 12
MaxCoreRank == 11

\* str(n) of a non-negative integer, as f"{n}" formats it
Digits == <<"0", "1", "2", "3", "4", "5", "6", "7", "8", "9">>

RECURSIVE Decimal(_)
Decimal(n) ==
    IF n < 10 THEN <<Digits[n + 1]>>
    ELSE Decimal(n \div 10) \o <<Digits[(n % 10) + 1]>>

\* operand_sig(operand_ndim, prefix)
operand_sig(operand_ndim, prefix) ==
    LET operands == JoinComma([q \in 1..operand_ndim |-> prefix \o Decimal(q - 1)])
    IN  <<"(">> \o operands \o <<")">>

\* safe_signature(core_inputs_ndim, core_outputs_ndim)
safe_signature(core_inputs_ndim, core_outputs_ndim) ==
    LET inputs_sig ==
            JoinComma([q \in 1..Len(core_inputs_ndim) |->
                          operand_sig(core_inputs_ndim[q], <<"i">> \o Decimal(q - 1))])
        outputs_sig ==
            JoinComma([q \in 1..Len(core_outputs_ndim) |->
                          operand_sig(core_outputs_ndim[q], <<"o">> \o Decimal(q - 1))])
    IN  inputs_sig \o <<"-", ">">> \o outputs_sig

\* The calls: at most MaxOperands inputs, one of them of any rank up to
\* MaxCoreRank and the others all of rank 0 or all of rank 1; no, one or
\* two outputs of one rank
FInit ==
    /\ pc = "f_call"
    /\ \E nin \in 0..MaxOperands, nout \in 0..2, rest \in 0..1, rout \in 0..2 :
          \E a \in 0..nin, ra \in 0..MaxCoreRank :
             /\ (a = 0) => ra = 0
             /\ (nout = 0) => rout = 0
             /\ pin = [fn |-> "safe_signature",
                       core_inputs_ndim |-> [q \in 1..nin |-> IF q = a THEN ra ELSE rest],
                       core_outputs_ndim |-> [q \in 1..nout |-> rout],
                       signature |-> <<>>]
    /\ pout = NoArray
    /\ ReducerIdle
    /\ ElemwiseIdle
    /\ JitIdle
    /\ ConcurrentIdle
    /\ DimShuffleIdle

\* safe_signature(core_inputs_ndim, core_outputs_ndim)
FSafeSignature ==
    /\ pc = "f_call"
    /\ pin' = [pin EXCEPT !.signature =
                   safe_signature(pin.core_inputs_ndim, pin.core_outputs_ndim)]
    /\ pc' = "f_parse"
    /\ UNCHANGED pout
    /\ UNCHANGED not_pvars

\* _parse_gufunc_signature(signature) of the signature made
FParse ==
    /\ pc = "f_parse"
    /\ pout' = parse_gufunc_signature(pin.signature)
    /\ pc' = "f_done"
    /\ UNCHANGED pin
    /\ UNCHANGED not_pvars

FNext == FSafeSignature \/ FParse

SpecSafeSignature == FInit /\ [][FNext]_vars

----------------------------------------------------------------------------
(* Properties *)

\* C1: a kernel built by create_multiaxis_reducer (directly, or by the
\* CAReduce factory) with the add operator and identity 0 for a non-empty
\* set of distinct in-range axes returns the sum of its input over those
\* axes, an array of rank R minus the number of reduced axes.
C1_SumMatchesReference ==
    (/\ pc = "done"
     /\ built.entry \in {"numba_funcify_CAReduce", "create_multiaxis_reducer"}
     /\ built.scalar_op = "Add"
     /\ built.identity = <<0, 1>>
     /\ ~built.return_scalar
     /\ built.want # {})
    => /\ out = RefSum(x, built.want, built.dtype)
       /\ Len(out.shape) = Len(x.shape) - Cardinality(built.want)

\* The sums of [[1,2,3],[4,5,6]]: [6,15] over axis 1, [5,7,9] over axis 0
\* and 21 over both axes
C1_Witness ==
    /\ pc = "done"
    /\ built.entry = "numba_funcify_CAReduce"
    /\ built.scalar_op = "Add"
    /\ x.shape = <<2, 3>>
    /\ x.data = <<1, 2, 3, 4, 5, 6>>
    /\ built.want = {0, 1}
    /\ built.dtype = "int16"
    /\ out = Array(<<>>, <<21>>, "int16")

\* C2: in every single-axis kernel the in-place statement is applied, per
\* output coordinate, to the elements along the reduced axis in the order
\* 0, 1, ..., N-1, starting from the identity, and the counter i the
\* statement sees is the number of elements already accumulated there.
C2_AccumulatesInIndexOrder ==
    pc = "loop" =>
        LET fn == built.fns[k]
            others == KeptAxes(0, fn.ndim, {fn.axis})
        IN  \A p \in 1..Len(hist) :
               /\ Len(hist[p]) = (IF p - 1 < idx THEN axis_shape
                                  ELSE IF p - 1 = idx THEN i ELSE 0)
               /\ \A m \in 1..Len(hist[p]) :
                     LET c == Unravel(cur.shape, hist[p][m].src)
                     IN  /\ hist[p][m].i = m - 1
                         /\ c[fn.axis + 1] = m - 1
                         /\ Project(c, others) =
                               (IF fn.ndim > 1 THEN Unravel(res.shape, p - 1) ELSE <<>>)
               /\ (hist[p] = <<>> => res.data[p] = CastTo(fn.dtype, fn.identity))

\* The running mean of [[1,2,3],[4,5,6]] along axis 1, all six updates done
C2_Witness ==
    /\ pc = "loop"
    /\ LoopDone
    /\ built.scalar_op = "Mean"
    /\ cur.shape = <<2, 3>>
    /\ built.fns[k].axis = 1
    /\ Len(hist[1]) = 3
    /\ Len(hist[2]) = 3
    /\ res.data = <<<<2, 1>>, <<5, 1>>>>

\* C3: when two or more axes are folded, they are folded in strictly
\* descending order, each reducer is built for the rank of the array it
\* receives, that rank has dropped by one per fold already done, and the
\* axis it reduces is a valid index of that array.
C3_FoldsDescendingValidAxes ==
    (pc \in {"enter", "loop"} /\ Len(built.fns) >= 2) =>
        LET fn == built.fns[k]
        IN  /\ Len(cur.shape) = built.ndim - (k - 1)
            /\ fn.ndim = Len(cur.shape)
            /\ 0 <= fn.axis
            /\ fn.axis < Len(cur.shape)
            /\ (k > 1 => fn.axis < built.fns[k - 1].axis)

\* The third fold of a reduction over all three axes of a rank-3 array
C3_Witness ==
    /\ pc = "loop"
    /\ Len(built.fns) = 3
    /\ k = 3
    /\ built.fns[1].axis = 2
    /\ built.fns[2].axis = 1
    /\ built.fns[3].axis = 0
    /\ Len(x.shape) = 3
    /\ Len(cur.shape) = 1

\* The events that assemble or compile kernel source
SourceEvents ==
    {"reduce_elemwise_def_src", "careduce_def_src", "compile_function_src",
     "numba_njit", "jit_compile_reducer"}

\* C4: when scalar_in_place_fn is called, directly or by create_axis_reducer /
\* create_multiaxis_reducer, with an operator kind that has no registered
\* in-place statement, the call fails with NotImplementedError and no kernel
\* source has been assembled or compiled by then.
C4_UnregisteredKindRaisesBeforeSource ==
    (/\ pc \in {"built", "raised"}
     /\ built.entry \in {"scalar_in_place_fn", "create_axis_reducer",
                          "create_multiaxis_reducer"}
     /\ built.scalar_op \notin Registered
     /\ \E j \in 1..Len(built.log) : built.log[j] = "scalar_in_place_fn")
    => /\ pc = "raised"
       /\ built.err = NotImplementedError
       /\ built.fns = <<>>
       /\ \A j \in 1..Len(built.log) : built.log[j] \notin SourceEvents

\* create_multiaxis_reducer asked to fold two axes of a rank-3 array with an
\* unregistered kind: the first single-axis reducer raises
C4_Witness ==
    /\ pc = "raised"
    /\ built.entry = "create_multiaxis_reducer"
    /\ built.scalar_op = Unregistered
    /\ built.n_axes = 2
    /\ built.ndim = 3
    /\ built.err = NotImplementedError
    /\ built.log = <<"normalize_axis_tuple", "normalize_axis_index",
                     "create_tuple_creator", "scalar_in_place_fn">>

BroadcastViolation ==
    \E m \in 1..Len(einputs) : \E j \in 1..Len(eshape) :
       /\ einputs[m].shape[j] = 1
       /\ ~enode.input_bc_patterns[m][j]
       /\ eshape[j] # 1

\* C6: in the reference function `elemwise`, when some input has an axis of
\* length 1 not flagged broadcastable while the common broadcast length of
\* that axis is not 1, the call raises ValueError before the scalar kernel
\* computes any output element, whatever the position of that input.
C6_BroadcastViolationRaises ==
    (pc \in {"e_loop", "e_done"} /\ BroadcastViolation)
    => /\ pc = "e_done"
       /\ eret.form = "ValueError"
       /\ ecalls = 0

\* The axes a request names lie in [-ndim, ndim)
AxesInRange(r) == \A j \in 1..Len(r.axes) : -r.ndim <= r.axes[j] /\ r.axes[j] < r.ndim

\* The axes the reducers of an outcome fold
FoldedAxes(b) == {b.fns[j].axis : j \in 1..Len(b.fns)}

\* C7: create_axis_reducer, create_multiaxis_reducer and create_axis_apply_fn
\* given an axis outside [-ndim, ndim) raise a ValueError during axis
\* normalization, with no source generated and no sub-kernel compiled; given
\* axes in range, a kernel that is built treats a negative axis a as
\* a + ndim.
C7_OutOfRangeAxisRaisesInNormalization ==
    [][(/\ pc = "request"
        /\ req.entry \in {"create_axis_reducer", "create_multiaxis_reducer",
                          "create_axis_apply_fn"})
       => /\ (~AxesInRange(req)
                => /\ IsValueError(built'.err)
                   /\ built'.fns = <<>>
                   /\ \A j \in 1..Len(built'.log) :
                         built'.log[j] \in {"normalize_axis_index", "normalize_axis_tuple"})
          /\ ((AxesInRange(req) /\ built'.err = "none")
                => FoldedAxes(built') =
                     {IF req.axes[j] < 0 THEN req.axes[j] + req.ndim ELSE req.axes[j] :
                        j \in 1..Len(req.axes)})]_vars

\* create_multiaxis_reducer given two axes, one of them out of range
C7_Witness ==
    /\ pc = "raised"
    /\ built.entry = "create_multiaxis_reducer"
    /\ built.n_axes = 2
    /\ built.err = "AxisError"
    /\ built.log = <<"normalize_axis_tuple">>

\* C8: the CAReduce factory uses, for an integer accumulator dtype (signed
\* or unsigned) and an infinite nominal identity, the largest (for +inf) or
\* smallest (for -inf) value of the dtype; a finite identity or a float
\* accumulator dtype leaves the identity unchanged.
C8_InfiniteIdentityClampedForIntegers ==
    [][(pc = "request" /\ req.entry = "numba_funcify_CAReduce")
       => LET acc_dtype == IF req.acc_dtype # None THEN req.acc_dtype ELSE req.dtype
          IN  /\ built'.err # "OverflowError"
              /\ built'.identity =
                    IF Kind(acc_dtype) \in {"i", "u"} /\ IsInf(req.identity)
                    THEN (IF req.identity = PosInf THEN <<IInfoMax(acc_dtype), 1>>
                                                   ELSE <<IInfoMin(acc_dtype), 1>>)
                    ELSE req.identity]_vars

\* C9: the kernel create_multiaxis_reducer returns for a non-empty axis
\* collection that reduces every axis of the input returns a plain scalar
\* when return_scalar is True, also when the collection has exactly one
\* axis, and an array when return_scalar is False.
C9_ReturnScalarHonoured ==
    (/\ pc = "done"
     /\ built.entry = "create_multiaxis_reducer"
     /\ built.n_axes >= 1
     /\ built.want = 0..(built.ndim - 1))
    => out.form = (IF built.return_scalar THEN "scalar" ELSE "array")

\* The normalized axes of a request whose axes are in range
NormalizedAxes(r) ==
    {IF r.axes[j] < 0 THEN r.axes[j] + r.ndim ELSE r.axes[j] : j \in 1..Len(r.axes)}

\* C10 as stated: create_multiaxis_reducer given in-range axes and a
\* registered kind builds a kernel that folds every named axis exactly once,
\* repeated axes being removed, and delegates to the single-axis reducer
\* exactly when the normalized set has one axis.
C10_DuplicatesRemoved ==
    [][(/\ pc = "request"
        /\ req.entry = "create_multiaxis_reducer"
        /\ AxesInRange(req)
        /\ req.scalar_op \in Registered)
       => /\ built'.err = "none"
          /\ FoldedAxes(built') = NormalizedAxes(req)
          /\ Len(built'.fns) = Cardinality(NormalizedAxes(req))
          /\ (built'.wrap = "careduce_axis" <=> Cardinality(NormalizedAxes(req)) = 1)]_vars

\* C10 amended: create_multiaxis_reducer resolves negative axes and rejects
\* an out-of-range axis with a ValueError; a collection of two or more axes
\* that names an axis twice is rejected with ValueError before any source is
\* generated; otherwise, for a registered kind, every named axis is folded
\* exactly once, and the single-axis reducer is delegated to exactly when
\* the collection as given has one entry.
C10_DuplicatesRejected ==
    [][(pc = "request" /\ req.entry = "create_multiaxis_reducer")
       => LET named == NormalizedAxes(req)
              repeated == Cardinality(named) # Len(req.axes)
          IN  /\ (~AxesInRange(req)
                    => IsValueError(built'.err) /\ built'.fns = <<>>)
              /\ ((AxesInRange(req) /\ repeated)
                    => /\ built'.err = "ValueError"
                       /\ built'.log = <<"normalize_axis_tuple">>
                       /\ built'.fns = <<>>)
              /\ ((AxesInRange(req) /\ ~repeated /\ req.scalar_op \in Registered)
                    => /\ built'.err = "none"
                       /\ FoldedAxes(built') = named
                       /\ Len(built'.fns) = Len(req.axes)
                       /\ (built'.wrap = "careduce_axis" <=> Len(req.axes) = 1))]_vars

\* The collection (1, 1) or (1, -1) at rank 2 is rejected
C10_Witness ==
    /\ pc = "raised"
    /\ built.entry = "create_multiaxis_reducer"
    /\ built.ndim = 2
    /\ built.n_axes = 2
    /\ built.want = {1}
    /\ built.err = "ValueError"
    /\ built.log = <<"normalize_axis_tuple">>

\* C11: a reducer built by create_axis_reducer for a registered operator
\* kind and its identity, called with an array whose every element is the
\* identity, returns the identity at every output coordinate.
C11_IdentityArrayReducesToIdentity ==
    (/\ pc = "done"
     /\ built.fill = "identity"
     /\ built.scalar_op \in Registered)
    => /\ out.form = "array"
       /\ \A p \in 1..Len(out.data) :
             out.data[p] = CastTo(built.dtype, built.identity)

\* The bitwise AND of a 2 x 3 array of -1 (all bits set) along axis 1
C11_Witness ==
    /\ pc = "done"
    /\ built.fill = "identity"
    /\ built.scalar_op = "AND"
    /\ x.shape = <<2, 3>>
    /\ x.data = <<-1, -1, -1, -1, -1, -1>>
    /\ out = Array(<<2>>, <<-1, -1>>, "int16")

\* C12: jit_compile_reducer installs the optimized pass manager only while
\* its one compilation runs: when the call has returned or raised, the
\* global configuration is what it was when the call started, and a
\* compilation that raised leaves the call as that exception.
C12_ConfigurationRestored ==
    /\ (pc = "j_compile" => jconfig = "mpm_optimized")
    /\ (pc = "j_return" => jconfig = jbefore)
    /\ ((pc = "j_idle" /\ jret # "none")
          => /\ jconfig = jbefore
             /\ jret = (IF jcall.compiles THEN "compiled" ELSE "TypingError"))

\* A call whose compilation raised has ended with the custom pass manager
\* back in place
C12_Witness ==
    /\ pc = "j_idle"
    /\ jdone = 1
    /\ jret = "TypingError"
    /\ jbefore = "mpm_custom"
    /\ jconfig = "mpm_custom"

\* C13: two invocations of one generated reduction kernel, interleaved in
\* any way and possibly reading the same input, do not interfere: each
\* accumulates into a buffer it allocated itself, no array is written by
\* both, the inputs are not written, and each returns the value the kernel
\* returns when it runs alone.
C13_ConcurrentCallsIndependent ==
    pc = "c_run" =>
        /\ \A b \in 1..Len(cheap) :
              /\ cheap[b].writers \subseteq {cheap[b].owner}
              /\ (cheap[b].owner = 0 => cheap[b].writers = {})
        /\ \A t \in Threads :
              /\ (cth[t].res # 0 => cheap[cth[t].res].owner = t)
              /\ (cth[t].pc = "done"
                    => cth[t].ret = careduce(ckernel, cheap[cth[t].input].arr))
        /\ \A t \in Threads, u \in Threads :
              (t # u /\ cth[t].res # 0) => cth[t].res # cth[u].res

\* Both threads have summed the same 2 x 3 array over both axes, their
\* updates interleaved: each allocated its buffers after the other's first
C13_Witness ==
    /\ pc = "c_run"
    /\ cth[1].pc = "done"
    /\ cth[2].pc = "done"
    /\ cth[1].input = 1
    /\ cth[2].input = 1
    /\ cheap[1].arr.shape = <<2, 3>>
    /\ Len(cheap) >= 5
    /\ cheap[3].owner = 1
    /\ cheap[4].owner = 2
    /\ cheap[5].owner = 1
    /\ cth[1].ret = Array(<<>>, <<21>>, "int16")
    /\ cth[2].ret = Array(<<>>, <<21>>, "int16")


\* C14 (as stated): a DimShuffle kernel whose transposition is the identity
\* permutation and which has no augmented axes skips the transpose step and
\* returns an array of the input's shape with the input's elements in the
\* same positions.
C14_IdentityTranspositionIsNoOp ==
    \A q \in 1..Len(dlog) :
        LET e == dlog[q]
        IN  (/\ e.op.transposition = IdentityPermutation(Len(e.x.shape))
             /\ e.op.augment = <<>>)
            => /\ e.kernel.transpose = "identity"
               /\ e.res.shape = e.x.shape
               /\ ViewData(dheap, e.res) = ViewData(dheap, e.x)

\* C14 (amended): a DimShuffle kernel whose transposition is the identity
\* permutation, which has no augmented axes and drops no axis (its shuffle
\* lists every input axis) skips the transpose step and returns an array of
\* the input's shape with the input's elements in the same positions; with
\* dropped axes the elements are the same in C order but the shape is not.
C14_IdentityOrderIsNoOp ==
    \A q \in 1..Len(dlog) :
        LET e == dlog[q]
        IN  (/\ e.op.transposition = IdentityPermutation(Len(e.x.shape))
             /\ e.op.augment = <<>>)
            => /\ e.kernel.transpose = "identity"
               /\ ViewData(dheap, e.res) = ViewData(dheap, e.x)
               /\ (Len(e.op.shuffle) = Len(e.x.shape) => e.res.shape = e.x.shape)

\* The identity order applied, not in place, to a (2,3) array that is the
\* transpose of a C-contiguous one
C14_Witness ==
    /\ pc = "d_done"
    /\ Len(dlog) = 1
    /\ dlog[1].op.shuffle = <<0, 1>>
    /\ dlog[1].op.augment = <<>>
    /\ ~dlog[1].op.inplace
    /\ dlog[1].x = [base |-> 1, shape |-> <<2, 3>>, strides |-> <<1, 2>>]
    /\ dlog[1].res = [base |-> 3, shape |-> <<2, 3>>, strides |-> <<3, 1>>]
    /\ ViewData(dheap, dlog[1].res) = <<1, 3, 5, 2, 4, 6>>

\* C15: the kernel for an axis permutation p followed by the kernel for the
\* inverse permutation returns an array with the original shape and the
\* original elements in their original positions.
C15_InversePermutationRoundTrips ==
    (/\ Len(dlog) = 2
     /\ Len(dlog[1].op.shuffle) = Len(dlog[1].x.shape)
     /\ dlog[1].op.augment = <<>>
     /\ dlog[2].op.augment = <<>>
     /\ dlog[2].op.shuffle = InversePermutation(dlog[1].op.shuffle)
     /\ dlog[2].x = dlog[1].res)
    => /\ dlog[2].res.shape = dlog[1].x.shape
       /\ ViewData(dheap, dlog[2].res) = ViewData(dheap, dlog[1].x)

\* (2,1,3) -> (1,3,2) by the order (1,2,0), and back by (2,0,1)
C15_Witness ==
    /\ pc = "d_done"
    /\ Len(dlog) = 2
    /\ dlog[1].op.shuffle = <<1, 2, 0>>
    /\ dlog[2].op.shuffle = <<2, 0, 1>>
    /\ dlog[1].x = [base |-> 1, shape |-> <<2, 1, 3>>, strides |-> <<3, 3, 1>>]
    /\ dlog[1].res.shape = <<1, 3, 2>>
    /\ ViewData(dheap, dlog[1].res) = <<1, 4, 2, 5, 3, 6>>
    /\ dlog[2].res.shape = <<2, 1, 3>>
    /\ ViewData(dheap, dlog[2].res) = <<1, 2, 3, 4, 5, 6>>

\* C16: when the DimShuffle operator is not in place, the array the kernel
\* returns shares no storage with the input, for every output rank (rank 0
\* included).
C16_NotInPlaceReturnsCopy ==
    \A q \in 1..Len(dlog) :
        ~dlog[q].op.inplace => dlog[q].res.base # dlog[q].x.base

\* The element of x at kept coordinate kc and flat position g of the
\* reduced block: g is the row-major index over the reduced axes in the
\* order listed
BlockValue(a, axis, kept, kc, g) ==
    LET rc == Unravel(Project(a.shape, axis), g)
        c == [ax \in 1..Len(a.shape) |->
                 IF (ax - 1) \in Range(axis)
                 THEN rc[CHOOSE q \in 1..Len(axis) : axis[q] = ax - 1]
                 ELSE kc[CHOOSE q \in 1..Len(kept) : kept[q] = ax - 1]]
    IN  a.data[1 + Ravel(a.shape, c)]

\* C17: for an input of rank >= 1 and distinct non-negative reduced axes the
\* Argmax kernel returns an array shaped like the kept axes in their
\* original order, whose entry at a kept coordinate is the row-major flat
\* index (reduced axes in the order listed) of the first maximal element of
\* the reduced block; a rank-0 input returns the constant 0.
C17_ArgmaxIsFirstFlatMaximum ==
    pc = "a_done"
    => IF pin.x_ndim = 0 THEN pout = Scalar(0, "int64")
       ELSE LET kept == KeptAxes(0, pin.x_ndim, Range(pin.axis))
                kshape == Project(pin.x.shape, kept)
                size == Prod(Project(pin.x.shape, pin.axis))
            IN  /\ pout.form = "array"
                /\ pout.shape = kshape
                /\ \A p \in 1..Prod(kshape) :
                      LET kc == Unravel(kshape, p - 1)
                          v == pout.data[p]
                      IN  /\ v \in 0..(size - 1)
                          /\ \A g \in 0..(size - 1) :
                                BlockValue(pin.x, pin.axis, kept, kc, g)
                                   <= BlockValue(pin.x, pin.axis, kept, kc, v)
                          /\ \A g \in 0..(v - 1) :
                                BlockValue(pin.x, pin.axis, kept, kc, g)
                                   < BlockValue(pin.x, pin.axis, kept, kc, v)

\* x of shape (2,1,3) holding 0,3,6,2,5,1, reduced over the axes (2,0) in
\* that order: the maximum 6 is at coordinate (0,0,2), flat index 2*2 + 0
C17_Witness ==
    /\ pc = "a_done"
    /\ pin.axis = <<2, 0>>
    /\ pin.x = Array(<<2, 1, 3>>, <<0, 3, 6, 2, 5, 1>>, "int16")
    /\ pout = Array(<<1>>, <<4>>, "int64")

\* Two arrays have the same shape and hold the same numbers
SameValues(a, b) ==
    /\ a.shape = b.shape
    /\ \A p \in 1..Len(a.data) : ToRat(a.dtype, a.data[p]) = ToRat(b.dtype, b.data[p])

\* The number of axes the Sum operator reduces
SumAxesCount == IF pin.axis_none THEN pin.ndim ELSE Len(pin.axis)

\* The whole-array path is taken exactly when the number of axes equals the
\* rank, the identity-copy path exactly when there is no axis and the rank
\* is positive, the general path otherwise
SumPathSelection ==
    /\ pin.kernel.path = "array.sum" <=> SumAxesCount = pin.ndim
    /\ pin.kernel.path = "np.asarray" <=> (SumAxesCount = 0 /\ pin.ndim > 0)
    /\ pin.kernel.path = "numba_funcify_CAReduce"
          <=> (SumAxesCount # pin.ndim /\ SumAxesCount # 0)

\* C18: the kernel the Sum factory chooses returns the same values as the
\* general CAReduce kernel (the listed axes folded with add from identity
\* 0), and the whole-array path is taken exactly when the number of axes
\* equals the rank, the identity-copy path exactly when the axis set is
\* empty and the rank positive, the general path in every other case.
C18_SumPathsAgree ==
    pc = "s_done"
    => /\ SumPathSelection
       /\ SameValues(pout, careduce(pin.kernel.careduce, pin.x))

\* The same, for operators whose accumulator dtype is not an integer dtype
\* narrower than the output dtype
C18_SumPathsAgreeWithoutNarrowAccumulator ==
    (pc = "s_done" /\ (pin.acc_dtype = None \/ pin.acc_dtype = "float64"))
    => /\ SumPathSelection
       /\ SameValues(pout, careduce(pin.kernel.careduce, pin.x))

\* The sum of the computed output over its flagged axes at coordinate c of
\* the returned array, taken over the flat positions g, g + 1, ...
RECURSIVE FlaggedSum(_, _, _, _)
FlaggedSum(output, bc, c, g) ==
    IF g >= Prod(output.shape) THEN 0
    ELSE (IF \A j \in 1..Len(bc) : bc[j] \/ Unravel(output.shape, g)[j] = c[j]
          THEN output.data[g + 1] ELSE 0)
         + FlaggedSum(output, bc, c, g + 1)

\* C19: the reference elementwise function returns each computed output
\* summed along exactly the axes flagged broadcastable in that output's
\* pattern, the axes kept: a flagged axis has length 1, an unflagged axis
\* keeps its length, with no flagged axis the computed values are returned
\* unchanged; one output is returned as an array, several as a tuple.
C19_OutputsSummedOverFlaggedAxes ==
    (pc = "e_done" /\ eret.form \in {"array", "tuple"})
    => /\ eret.form = (IF enode.nout = 1 THEN "array" ELSE "tuple")
       /\ Len(eret.items) = enode.nout
       /\ \A o \in 1..enode.nout :
             LET bc == enode.output_bc_patterns[o]
                 r == eret.items[o]
             IN  /\ Len(r.shape) = enode.ndim
                 /\ \A j \in 1..enode.ndim :
                       r.shape[j] = IF bc[j] THEN 1 ELSE eouts[o].shape[j]
                 /\ \A p \in 1..Prod(r.shape) :
                       r.data[p] = Wrap(r.dtype,
                                        FlaggedSum(eouts[o], bc,
                                                   Unravel(r.shape, p - 1), 0))
                 /\ (\A j \in 1..enode.ndim : ~bc[j]) => r.data = eouts[o].data

\* Two outputs of shape (1,3) whose first axis is flagged, returned as a
\* tuple
C19_Witness ==
    /\ pc = "e_done"
    /\ eret.form = "tuple"
    /\ enode.output_bc_patterns = <<<<TRUE, FALSE>>, <<TRUE, FALSE>>>>
    /\ Len(einputs) = 2
    /\ eouts[1].shape = <<1, 3>>
    /\ eret.items[1].shape = <<1, 3>>
    /\ eret.items[2].data = eouts[2].data

\* s occurs in the text
Contains(text, s) ==
    \E p \in 0..(Len(text) - Len(s)) : SubSeq(text, p + 1, p + Len(s)) = s

\* The dimension names used by a list of operands
NamesOf(operands) ==
    UNION {Range(operands[q]) : q \in 1..Len(operands)}

\* A signature whose outputs use a dimension name that none of its inputs
\* has
InconsistentNames == pin.inputs # <<>> /\ ~(NamesOf(pin.outputs) \subseteq NamesOf(pin.inputs))

\* C20 (as stated): a malformed signature, a signature with inconsistent
\* dimension names included, raises ValueError with a message containing the
\* signature; a well-formed signature returns two lists, inputs then
\* outputs, one tuple of dimension names per operand, an absent input list
\* giving an empty list.
C20_MalformedOrInconsistentRaises ==
    pc = "g_done"
    => IF pin.corruption # "none" \/ InconsistentNames
       THEN /\ pout.form = "ValueError"
            /\ Contains(pout.message, pin.signature)
       ELSE /\ pout.form = "tuple"
            /\ pout.items = <<pin.inputs, pin.outputs>>

\* C20 (amended): a signature that does not match the signature grammar
\* raises ValueError with a message containing the signature with its
\* whitespace removed; every signature that matches the grammar, whatever
\* its dimension names, returns two lists, inputs then outputs, one tuple of
\* dimension names per operand, an absent input list giving an empty list.
C20_MalformedRaisesWellFormedParses ==
    pc = "g_done"
    => IF pin.corruption # "none"
       THEN /\ pout.form = "ValueError"
            /\ pout.message = ValueErrorPrefix \o re_sub_whitespace(pin.signature)
       ELSE /\ pout.form = "tuple"
            /\ Len(pout.items) = 2
            /\ pout.items = <<pin.inputs, pin.outputs>>

\* "( m)- >(n1)": the output names a dimension the input does not have, and
\* the signature is parsed
C20_Witness ==
    /\ pc = "g_done"
    /\ pin.signature = <<"(", " ", "m", ")", "-", " ", ">", "(", "n", "1", ")">>
    /\ InconsistentNames
    /\ pout.form = "tuple"
    /\ pout.items = << << << <<"m">> >> >>, << << <<"n", "1">> >> >> >>

(* C21: for a rank-1 input the value returned by a create_axis_reducer     *)
(* kernel has a form fixed by return_scalar alone, whatever keepdims is: a *)
(* plain scalar when return_scalar is True and a 0-d array when it is      *)
(* False, holding the single element of the result buffer after the loop.  *)
C21_FormFixedByReturnScalarAlone ==
    (/\ pc = "done"
     /\ built.entry = "create_axis_reducer"
     /\ built.ndim = 1)
    => /\ out.form = (IF built.return_scalar THEN "scalar" ELSE "array")
       /\ out.shape = <<>>
       /\ out.data = <<res.data[1]>>

\* C21 (as the code has it): without keepdims the form is fixed by
\* return_scalar, a plain scalar or a 0-d array; with keepdims the kernel
\* returns the one-element rank-1 buffer itself, of shape (1,), for either
\* value of return_scalar.  In every case the value is the single element of
\* the result buffer after the accumulation loop, and the buffer has been
\* updated once per element of the input, in index order.
C21_FormFixedByKeepdimsAndReturnScalar ==
    (/\ pc = "done"
     /\ built.entry = "create_axis_reducer"
     /\ built.ndim = 1)
    => /\ res.shape = <<1>>
       /\ Len(hist) = 1
       /\ hist[1] = [n \in 1..x.shape[1] |-> [src |-> n - 1, i |-> n - 1]]
       /\ out.data = <<res.data[1]>>
       /\ out.dtype = built.dtype
       /\ IF built.keepdims
          THEN out.form = "array" /\ out.shape = <<1>>
          ELSE /\ out.shape = <<>>
               /\ out.form = (IF built.return_scalar THEN "scalar" ELSE "array")

\* A rank-1 kernel built with keepdims and return_scalar has summed three
\* elements and returned its buffer
C21_Witness ==
    /\ pc = "done"
    /\ built.entry = "create_axis_reducer"
    /\ built.ndim = 1
    /\ built.scalar_op = "Add"
    /\ built.keepdims
    /\ built.return_scalar
    /\ x.shape = <<3>>
    /\ x.data = <<1, 2, 3>>
    /\ out = Array(<<1>>, <<6>>, "int16")

\* The inputs of the call in another order: rotated by r places
Rotated(inputs, r) ==
    [m \in 1..Len(inputs) |-> inputs[((m - 1 + r) % Len(inputs)) + 1]]

\* C22: the reference function `elemwise` computes over the common
\* broadcast shape of all its inputs: for broadcast-compatible inputs whose
\* axes of length 1 are flagged wherever they are stretched, every output
\* buffer (before the final sum over flagged axes) has the shape obtained by broadcasting every input together, the
\* same in whatever order the inputs are taken, and the scalar kernel has
\* been invoked once for every coordinate of that shape when the loop ends.
C22_ComputesOverCommonBroadcastShape ==
    (/\ pc \in {"e_loop", "e_done"}
     /\ eret.form \notin {"ValueError"}
     /\ ~BroadcastViolation)
    => /\ \A r \in 0..(Len(einputs) - 1) :
             broadcast_arrays(Rotated(einputs, r)) = [err |-> "none", shape |-> eshape]
       /\ \A o \in 1..Len(eouts) : eouts[o].shape = eshape
       /\ pc = "e_done" => ecalls = Prod(eshape)

\* The positions of a shape of rank n that are not inserted axes, in
\* increasing order
NotAugmented(augment, n) == KeptAxes(0, n, Range(augment))

\* C23: when the output shape of a DimShuffle is not fully static, the
\* shape find_shape computes has length len(shuffle) + len(augment), holds 1
\* at every augmented position and, at the other positions in increasing
\* order, the lengths of the first len(shuffle) axes of the transposed input
\* in order; the indices it reads are 0 .. len(shuffle) - 1, never more, and
\* the product of the computed shape is the product of those lengths.  When
\* the output shape is fully static, the static shape is used instead.
C23_DynamicShapeInterleaves ==
    \A n \in 1..Len(dlog) :
       LET e == dlog[n]
           ndim_new_shape == Len(e.op.shuffle) + Len(e.op.augment)
           rest == NotAugmented(e.op.augment, ndim_new_shape)
       IN  e.kernel.dimshuffle_inner = "reshape"
           => /\ \A q \in 1..Len(e.op.shuffle) :
                    e.shuffle_shape[q] = e.x.shape[e.op.shuffle[q] + 1]
              /\ IF e.kernel.find_shape = "static"
                 THEN e.new_shape = e.op.type_shape
                 ELSE /\ Len(e.new_shape) = ndim_new_shape
                      /\ \A q \in 1..Len(e.op.augment) :
                            e.new_shape[e.op.augment[q] + 1] = 1
                      /\ Len(rest) = Len(e.op.shuffle)
                      /\ \A q \in 1..Len(rest) :
                            e.new_shape[rest[q] + 1] = e.shuffle_shape[q]
                      /\ e.reads = [q \in 1..Len(e.reads) |-> q - 1]
                      /\ \A q \in 1..Len(e.reads) : e.reads[q] <= Len(e.op.shuffle) - 1
                      /\ Prod(e.new_shape) = Prod(e.shuffle_shape)
              /\ e.res.shape = e.new_shape

\* A transposed input of shape (2, 3) got an axis inserted in front: the
\* computed shape is (1, 3, 2)
C23_Witness ==
    /\ pc = "d_done"
    /\ Len(dlog) = 1
    /\ dlog[1].kernel.find_shape = "dynamic"
    /\ dlog[1].x.shape = <<2, 3>>
    /\ dlog[1].op.shuffle = <<1, 0>>
    /\ dlog[1].op.augment = <<0>>
    /\ dlog[1].reads = <<0, 1>>
    /\ dlog[1].new_shape = <<1, 3, 2>>

\* The known lengths of the input that are not 1
LongLengths(dim_lengths) ==
    {v \in Range(dim_lengths) : v.known /\ v.len # 1}

\* C24: broadcast_static_dim_lengths raises ValueError exactly when its
\* non-empty input holds two different known lengths that both differ from
\* 1; otherwise it returns the one known length that is not 1 if there is
\* one, else None if the input mixes only None and 1, else the common value
\* (1 or None).  The result is the same for every input with the same
\* entries, whatever their order and however often they occur.
C24_BroadcastStaticDimLengths ==
    (pc = "b_done" /\ pin.dim_lengths # <<>>)
    => LET entries == Range(pin.dim_lengths)
           long == LongLengths(pin.dim_lengths)
       IN  /\ (pout.form = "ValueError") <=> Cardinality(long) >= 2
           /\ Cardinality(long) < 2 => pout.form = "value"
           /\ Cardinality(long) = 1 => pout.value \in long
           /\ (long = {} /\ entries = {UnknownLength, Known(1)})
                 => pout.value = UnknownLength
           /\ (long = {} /\ Cardinality(entries) = 1) => pout.value \in entries
           /\ \A other \in DimLengthLists :
                 Range(other) = entries => broadcast_static_dim_lengths(other) = pout

\* The lengths (1, None, 3) broadcast to 3
C24_Witness ==
    /\ pc = "b_done"
    /\ pin.dim_lengths = <<Known(1), UnknownLength, Known(3)>>
    /\ pout = Returned(Known(3))

\* The lengths (2, 1, 3) are refused
C24_WitnessRaises ==
    /\ pc = "b_done"
    /\ pin.dim_lengths = <<Known(2), Known(1), Known(3)>>
    /\ pout.form = "ValueError"

\* The parse gives one tuple per operand, as long as the operand's rank
ParsesBack ==
    /\ pout.form = "tuple"
    /\ Len(pout.items) = 2
    /\ Len(pout.items[1]) = Len(pin.core_inputs_ndim)
    /\ Len(pout.items[2]) = Len(pin.core_outputs_ndim)
    /\ \A q \in 1..Len(pin.core_inputs_ndim) :
          Len(pout.items[1][q]) = pin.core_inputs_ndim[q]
    /\ \A q \in 1..Len(pin.core_outputs_ndim) :
          Len(pout.items[2][q]) = pin.core_outputs_ndim[q]

\* No two (operand, axis) pairs of the parsed signature share a name
DistinctNames ==
    \A s1, s2 \in 1..2 :
       \A q1 \in 1..Len(pout.items[s1]), q2 \in 1..Len(pout.items[s2]) :
          \A l1 \in 1..Len(pout.items[s1][q1]), l2 \in 1..Len(pout.items[s2][q2]) :
             pout.items[s1][q1][l1] = pout.items[s2][q2][l2]
             => <<s1, q1, l1>> = <<s2, q2, l2>>

\* C25: for all sequences of input ranks and every non-empty sequence of
\* output ranks, the signature safe_signature makes is accepted by
\* _parse_gufunc_signature and parsed back into one tuple per operand whose
\* length is the operand's rank, and no two (operand, axis) pairs of the
\* signature share a dimension name.
C25_SafeSignatureNamesDistinct ==
    (pc = "f_done" /\ pin.core_outputs_ndim # <<>>)
    => ParsesBack /\ DistinctNames

\* With fewer than twelve inputs, or no input of rank above ten, the
\* signature parses back and its names are distinct
C25_SafeSignatureSmallOperands ==
    (pc = "f_done" /\ pin.core_outputs_ndim # <<>>)
    => /\ ParsesBack
       /\ (\/ Len(pin.core_inputs_ndim) < 12
           \/ \A q \in 1..Len(pin.core_inputs_ndim) : pin.core_inputs_ndim[q] <= 10)
             => DistinctNames

====
